---- MODULE Spec2Model ----
(***************************************************************************)
(* Jellyfin-Migrator (src/jellyfin_migrator/migrator.py): the rewriting    *)
(* engine as state machines.                                               *)
(*                                                                         *)
(*   SpecReplace  the two replacers applied to one value                   *)
(*   SpecField    update_db_table over the rows of one table               *)
(*   SpecFiles    program_main's passes: process_files over a job list     *)
(*   SpecPipe     program_main: path pass, get_ids, id passes              *)
(*   SpecTarget   get_target and the copy or rewrite of one file           *)
(*   SpecStamp    a nanosecond count written as a date string and read back*)
(*   SpecDates    update_file_dates over TypedBaseItems                    *)
(*   SpecMove     the id-path pass moving the files of one wildcard job    *)
(*                                                                         *)
(* A Python str is a sequence of one-character strings; a path is parsed   *)
(* from it the way pathlib.PurePosixPath does.                             *)
(***************************************************************************)
EXTENDS Integers, Sequences, FiniteSets, TLC

VARIABLES
    mode,        \* which state machine this behaviour runs
    rp_op,       \* SpecReplace: "root" (a str), "value" (any value), "config" or "id"
    rp_in,       \* SpecReplace: the value handed to the replacer
    rp_map,      \* SpecReplace: the to_replace dict (ordered entries)
    rp_out,      \* SpecReplace: result of the call, or NoResult
    fd_func,     \* SpecField: replace_func, "root" or "id"
    fd_map,      \* SpecField: replace_dict
    fd_table,    \* SpecField: the table's rows as the connection sees them
    fd_disk,     \* SpecField: the table's rows as committed to the file
    fd_i,        \* SpecField: number of rowids of todo already visited
    fd_pc,       \* SpecField: "loop", "done", "exited" or "crashed"
    fd_log,      \* SpecField: the UPDATE statements executed, in order
    fd_modified, \* SpecField: the modified counter
    fl_jobs,     \* SpecFiles: lst, the job list of the pass
    fl_files,    \* SpecFiles: what the wildcard expands to (srcglob)
    fl_dirs,     \* SpecFiles: the entries of srcglob that are directories
    fl_j,        \* SpecFiles: number of jobs finished
    fl_pc,       \* SpecFiles: "jobs", "seq", "pool", "finished", "returned", "aborted"
    fl_k,        \* SpecFiles: files (seq) or chunks (pool) of the job finished
    fl_chunks,   \* SpecFiles: srcglobs, the chunks partition yields
    fl_done,     \* SpecFiles: done, the processed-file set
    fl_called,   \* SpecFiles: files process_func was called for
    fl_twice,    \* SpecFiles: files process_func was called for more than once
    fl_stage,    \* SpecFiles: the step of program_main that is running
    fl_started,  \* SpecFiles: <<stage, job>> begun; job 0 is the stage itself
    fl_finished, \* SpecFiles: <<stage, job>> run to its end
    pp_pc,       \* SpecPipe: the step program_main is at
    pp_map,      \* SpecPipe: path_replacements
    pp_db,       \* SpecPipe: library.db, tables TypedBaseItems and AncestorIds
    pp_db0,      \* SpecPipe: library.db as it was when the id pass began
    pp_ids,      \* SpecPipe: ids["bin"], entries [k, v] in insertion order
    pp_dups,     \* SpecPipe: duplicates, the list get_ids builds
    pp_old_ids,  \* SpecPipe: old_ids, the items get_ids lists in its warning
    pp_acked,    \* SpecPipe: the operator pressed Enter at the prompt
    pp_col,      \* SpecPipe: id pass, columns whose SELECT DISTINCT has run
    pp_rows,     \* SpecPipe: id pass, values of the column still to visit
    tg_job,      \* SpecTarget: the job's source file, target, replacements, flags
    tg_env,      \* SpecTarget: original_root, source_root, target_root, fs_path_replacements
    tg_fs,       \* SpecTarget: the files and the directories that exist
    tg_pc,       \* SpecTarget: "resolve", "process", "done" or "crashed"
    tg_ret,      \* SpecTarget: what get_target returned
    tg_copied,   \* SpecTarget: the copies get_target made, <<source, target>>
    tg_rewritten, \* SpecTarget: the files process_file rewrote
    st_ns,       \* SpecStamp: time_ns, a nanosecond count
    st_str,      \* SpecStamp: the date string made from it, <<>> before
    st_back,     \* SpecStamp: what the date string was read back as
    dt_table0,   \* SpecDates: TypedBaseItems as update_file_dates read it
    dt_table,    \* SpecDates: TypedBaseItems with the UPDATEs executed so far
    dt_fs,       \* SpecDates: the files that exist, with st_ctime_ns and st_mtime_ns
    dt_env,      \* SpecDates: fs_path_replacements and target_root
    dt_parallel, \* SpecDates: the parallel argument
    dt_outs,     \* SpecDates: outs, what the workers returned
    dt_pc,       \* SpecDates: "start", "write", "done" or "crashed"
    mv_map,      \* SpecMove: id_replacements_path, the job's replacements
    mv_fs0,      \* SpecMove: the target tree when the job began, [path, data]
    mv_fs,       \* SpecMove: the target tree, [path, data]
    mv_left,     \* SpecMove: files of the job process_file was not yet called for
    mv_moved,    \* SpecMove: the moves made, <<file moved, destination>>
    mv_pc        \* SpecMove: "job" or "done"

rp_vars == <<rp_op, rp_in, rp_map, rp_out>>

fd_vars == <<fd_func, fd_map, fd_table, fd_disk, fd_i, fd_pc, fd_log, fd_modified>>

fl_vars == <<fl_jobs, fl_files, fl_dirs, fl_j, fl_pc, fl_k, fl_chunks, fl_done,
             fl_called, fl_twice, fl_stage, fl_started, fl_finished>>

pp_vars == <<pp_pc, pp_map, pp_db, pp_db0, pp_ids, pp_dups, pp_old_ids, pp_acked,
             pp_col, pp_rows>>

tg_vars == <<tg_job, tg_env, tg_fs, tg_pc, tg_ret, tg_copied, tg_rewritten>>

st_vars == <<st_ns, st_str, st_back>>

dt_vars == <<dt_table0, dt_table, dt_fs, dt_env, dt_parallel, dt_outs, dt_pc>>

mv_vars == <<mv_map, mv_fs0, mv_fs, mv_left, mv_moved, mv_pc>>

vars == <<mode, rp_vars, fd_vars, fl_vars, pp_vars, tg_vars, st_vars, dt_vars, mv_vars>>

----------------------------------------------------------------------------
(* Python str and list helpers *)

\* The value of a singleton set: The({e(x) : x \in {v}}) computes v once
The(S) == CHOOSE x \in S : TRUE

Range(f) == {f[i] : i \in DOMAIN f}

IsPrefix(a, b) == Len(a) <= Len(b) /\ SubSeq(b, 1, Len(a)) = a

\* s[:n]
Take(s, n) == SubSeq(s, 1, IF n < Len(s) THEN n ELSE Len(s))

\* s[n:]  (0-based n)
Drop(s, n) == SubSeq(s, n + 1, Len(s))

RECURSIVE SumTo(_, _)
SumTo(s, n) == IF n = 0 THEN 0 ELSE s[n] + SumTo(s, n - 1)

SumSeq(s) == SumTo(s, Len(s))

\* str.split(c): always at least one piece
SplitOn(s, c) ==
    LET at == {i \in 1..Len(s) : s[i] = c}
        \* position of the k-th separator; 0 and Len(s) + 1 fence the ends
        sepAt(k) == IF k = 0 THEN 0
                    ELSE IF k > Cardinality(at) THEN Len(s) + 1
                    ELSE CHOOSE i \in at : Cardinality({j \in at : j < i}) = k - 1
    IN  [k \in 1..(Cardinality(at) + 1) |->
            SubSeq(s, sepAt(k - 1) + 1, sepAt(k) - 1)]

\* sep.join(parts)
RECURSIVE JoinFrom(_, _, _)
JoinFrom(parts, sep, k) ==
    IF k > Len(parts) THEN <<>>
    ELSE IF k = Len(parts) THEN parts[k]
    ELSE parts[k] \o sep \o JoinFrom(parts, sep, k + 1)

JoinWith(parts, sep) == JoinFrom(parts, sep, 1)

\* s.replace("/", slash)
ReplaceSlash(s, slash) == JoinWith(SplitOn(s, "/"), slash)

IsSegment(piece) == piece # <<>> /\ piece # <<".">>

SelectSegs(parts) == SelectSeq(parts, IsSegment)

----------------------------------------------------------------------------
(* pathlib.PurePosixPath: a path is [root, segs]; root is "", "/" or "//" *)

PathOf(s) ==
    LET root == IF Len(s) >= 1 /\ s[1] = "/"
                THEN IF Len(s) >= 2 /\ s[2] = "/" /\ ~(Len(s) >= 3 /\ s[3] = "/")
                     THEN <<"/", "/">>
                     ELSE <<"/">>
                ELSE <<>>
    IN  [root |-> root, segs |-> SelectSegs(SplitOn(s, "/"))]

as_posix(p) ==
    IF p.root = <<>> /\ p.segs = <<>> THEN <<".">>
    ELSE p.root \o JoinWith(p.segs, <<"/">>)

is_relative_to(p, src) ==
    LET o == PathOf(src) IN p.root = o.root /\ IsPrefix(o.segs, p.segs)

\* p.relative_to(src), defined when is_relative_to(p, src)
relative_to(p, src) ==
    [root |-> <<>>, segs |-> Drop(p.segs, Len(PathOf(src).segs))]

\* (mutant) the part of the path below the prefix is dropped
RTrueDiv_NoRest(dst, q) == PathOf(dst)

\* dst / q for a str dst and a relative path q
RTrueDiv(dst, q) ==
    LET d == PathOf(dst) IN [root |-> d.root, segs |-> d.segs \o q.segs]

\* p / q for a relative path q
TrueDiv(p, q) == [root |-> p.root, segs |-> p.segs \o q.segs]

PathName(p) == IF p.segs = <<>> THEN <<>> ELSE p.segs[Len(p.segs)]

PathParent(p) ==
    IF p.segs = <<>> THEN p
    ELSE [root |-> p.root, segs |-> SubSeq(p.segs, 1, Len(p.segs) - 1)]

\* index of the last "." of name when it starts a suffix, else 0
SuffixAt(name) ==
    LET dots == {i \in 1..Len(name) : name[i] = "."}
        i == IF dots = {} THEN 0 ELSE CHOOSE k \in dots : \A j \in dots : j <= k
    IN  IF 1 < i /\ i < Len(name) THEN i ELSE 0

PathStem(p) ==
    LET name == PathName(p) i == SuffixAt(name)
    IN  IF i = 0 THEN name ELSE SubSeq(name, 1, i - 1)

PathSuffix(p) ==
    LET name == PathName(p) i == SuffixAt(name)
    IN  IF i = 0 THEN <<>> ELSE SubSeq(name, i, Len(name))

\* with_name raises ValueError on a path without a name and on an empty name
WithNameOk(p, name) == p.segs # <<>> /\ name # <<>> /\ name # <<".">>
    /\ \A i \in 1..Len(name) : name[i] # "/"

with_name(p, name) ==
    [root |-> p.root, segs |-> SubSeq(p.segs, 1, Len(p.segs) - 1) \o <<name>>]

with_stem(p, stem) == with_name(p, stem \o PathSuffix(p))

\* p.parts: the root is a part of its own
PathParts(p) == (IF p.root = <<>> THEN <<>> ELSE <<p.root>>) \o p.segs

----------------------------------------------------------------------------
(* The to_replace dict: its entries in insertion order, keys distinct.     *)
(* An entry is [k, v, str]: str is FALSE for the bool of "log_no_warnings" *)

TPS == <<"t","a","r","g","e","t","_","p","a","t","h","_","s","l","a","s","h">>

Entry(k, v) == [k |-> k, v |-> v, str |-> TRUE]

HasKey(to_replace, k) == \E i \in 1..Len(to_replace) : to_replace[i].k = k

\* to_replace[k] and to_replace.get(k, "")
Lookup(to_replace, k) ==
    IF HasKey(to_replace, k)
    THEN to_replace[CHOOSE i \in 1..Len(to_replace) : to_replace[i].k = k].v
    ELSE <<>>

\* Values: [t, v] with t in "str", "path", "list", "dict", "other"
StrVal(s) == [t |-> "str", v |-> s]
PathVal(s) == [t |-> "path", v |-> s]

Result(d, mo, ig, raised) ==
    [d |-> d, modified |-> mo, ignored |-> ig, raised |-> raised]

NoResult == [d |-> [t |-> "other", v |-> <<>>], modified |-> -1, ignored |-> -1,
             raised |-> FALSE]

----------------------------------------------------------------------------
(* recursive_root_path_replacer *)

\* (mutant) the last matching entry wins
FirstMatch_Last(p, to_replace) ==
    LET hits == {i \in 1..Len(to_replace) : is_relative_to(p, to_replace[i].k)}
    IN  IF hits = {} THEN 0 ELSE CHOOSE i \in hits : \A j \in hits : j <= i

\* index of the first entry whose key p is relative to, 0 when there is none
FirstMatch(p, to_replace) ==
    LET hits == {i \in 1..Len(to_replace) : is_relative_to(p, to_replace[i].k)}
    IN  IF hits = {} THEN 0 ELSE CHOOSE i \in hits : \A j \in hits : i <= j

\* the str / PurePath branch
RootLeaf(d, to_replace) ==
    LET p == PathOf(d.v)
        i == FirstMatch(p, to_replace)
    IN  IF i # 0
        THEN IF ~to_replace[i].str \/ ~HasKey(to_replace, TPS)
             THEN Result(d, 0, 0, TRUE)
             ELSE Result(StrVal(ReplaceSlash(
                                 as_posix(RTrueDiv(to_replace[i].v,
                                                   relative_to(p, to_replace[i].k))),
                                 Lookup(to_replace, TPS))),
                         1, 0, FALSE)
        ELSE Result(IF Len(p.segs) > 1 /\ d.t = "path" THEN StrVal(d.v) ELSE d,
                    0, 1, FALSE)

RECURSIVE recursive_root_path_replacer(_, _)
recursive_root_path_replacer(d, to_replace) ==
    IF d.t = "dict"
    THEN LET rs == [i \in 1..Len(d.v) |->
                       recursive_root_path_replacer(d.v[i][2], to_replace)]
         IN  Result([t |-> "dict",
                     v |-> [i \in 1..Len(d.v) |-> <<d.v[i][1], rs[i].d>>]],
                    SumSeq([i \in 1..Len(d.v) |-> rs[i].modified]),
                    SumSeq([i \in 1..Len(d.v) |-> rs[i].ignored]),
                    \E i \in 1..Len(d.v) : rs[i].raised)
    ELSE IF d.t = "list"
    THEN LET rs == [i \in 1..Len(d.v) |->
                       recursive_root_path_replacer(d.v[i], to_replace)]
         IN  Result([t |-> "list", v |-> [i \in 1..Len(d.v) |-> rs[i].d]],
                    SumSeq([i \in 1..Len(d.v) |-> rs[i].modified]),
                    SumSeq([i \in 1..Len(d.v) |-> rs[i].ignored]),
                    \E i \in 1..Len(d.v) : rs[i].raised)
    ELSE IF d.t \in {"str", "path"}
    THEN RootLeaf(d, to_replace)
    ELSE Result(d, 0, 0, FALSE)

----------------------------------------------------------------------------
(* recursive_id_path_replacer *)

HexChars == {"0","1","2","3","4","5","6","7","8","9","a","b","c","d","e","f","-"}

\* set(s).issubset(set("0123456789abcdef-"))
IsHexLike(s) == \A i \in 1..Len(s) : s[i] \in HexChars

\* the filename-stem branch: p.with_stem(dst)
StemDst(p, to_replace) ==
    IF IsHexLike(PathStem(p)) THEN Lookup(to_replace, PathStem(p)) ELSE <<>>

\* for part in p.parts[:-1]: index of the first part that is a key with a
\* non-empty value, 0 when there is none
FirstIdPart(p, to_replace) ==
    LET parts == PathParts(p)
        hits == {i \in 1..(Len(parts) - 1) :
                    IsHexLike(parts[i]) /\ Lookup(to_replace, parts[i]) # <<>>}
    IN  IF hits = {} THEN 0 ELSE CHOOSE i \in hits : \A j \in hits : i <= j

\* while p.name != src: p = p.parent  -- the deepest segment named src
DeepestNamed(p, src) ==
    CHOOSE j \in 1..Len(p.segs) :
        p.segs[j] = src /\ \A k \in (j + 1)..Len(p.segs) : p.segs[k] # src

\* (mutant) the containing folder is copied, not recomputed
IdSegment_KeepFolder(p0, src, dst) ==
    LET j  == DeepestNamed(p0, src)
        pj == [root |-> p0.root, segs |-> SubSeq(p0.segs, 1, j)]
    IN  IF ~WithNameOk(pj, dst) THEN [p |-> p0, raised |-> TRUE]
        ELSE [p |-> TrueDiv(with_name(pj, dst),
                            [root |-> <<>>, segs |-> Drop(p0.segs, j)]),
              raised |-> FALSE]

\* (mutant) dst[:len(p.name)] taken as the whole dst
ShardName_Whole(dst, folder) == dst

\* dst[:len(p.name)], line 535
ShardName(dst, folder) == Take(dst, Len(folder))

\* the intermediate-segment branch, lines 518-538; [p, raised]
IdSegment(p0, src, dst) ==
    LET j  == DeepestNamed(p0, src)
        q0 == [root |-> <<>>, segs |-> Drop(p0.segs, j)]
        pj == [root |-> p0.root, segs |-> SubSeq(p0.segs, 1, j)]
        p1 == with_name(pj, dst)
        folder == PathName(PathParent(p1))
    IN  IF ~WithNameOk(pj, dst) THEN [p |-> p0, raised |-> TRUE]
        ELSE IF IsPrefix(folder, src)
        THEN LET q1 == [root |-> <<>>, segs |-> <<PathName(p1)>> \o q0.segs]
                 p2 == PathParent(p1)
                 nm == ShardName(dst, PathName(p2))
             IN  IF ~WithNameOk(p2, nm) THEN [p |-> p0, raised |-> TRUE]
                 ELSE [p |-> TrueDiv(with_name(p2, nm), q1), raised |-> FALSE]
        ELSE [p |-> TrueDiv(p1, q0), raised |-> FALSE]

\* the str / PurePath branch
IdLeaf(d, to_replace) ==
    LET p0 == PathOf(d.v)
        sd == StemDst(p0, to_replace)
        i  == FirstIdPart(p0, to_replace)
        out(p) == IF ~HasKey(to_replace, TPS) THEN Result(d, 1, 0, TRUE)
                  ELSE Result(StrVal(ReplaceSlash(as_posix(p), Lookup(to_replace, TPS))),
                              1, 0, FALSE)
    IN  IF sd # <<>>
        THEN IF ~WithNameOk(p0, sd \o PathSuffix(p0)) THEN Result(d, 0, 0, TRUE)
             ELSE out(with_stem(p0, sd))
        ELSE IF i # 0
        THEN LET src == PathParts(p0)[i]
                 r == IdSegment(p0, src, Lookup(to_replace, src))
             IN  IF r.raised THEN Result(d, 0, 0, TRUE) ELSE out(r.p)
        ELSE Result(d, 0, 1, FALSE)

RECURSIVE recursive_id_path_replacer(_, _)
recursive_id_path_replacer(d, to_replace) ==
    IF d.t = "dict"
    THEN LET rs == [i \in 1..Len(d.v) |->
                       recursive_id_path_replacer(d.v[i][2], to_replace)]
         IN  Result([t |-> "dict",
                     v |-> [i \in 1..Len(d.v) |-> <<d.v[i][1], rs[i].d>>]],
                    SumSeq([i \in 1..Len(d.v) |-> rs[i].modified]),
                    SumSeq([i \in 1..Len(d.v) |-> rs[i].ignored]),
                    \E i \in 1..Len(d.v) : rs[i].raised)
    ELSE IF d.t = "list"
    THEN LET rs == [i \in 1..Len(d.v) |->
                       recursive_id_path_replacer(d.v[i], to_replace)]
         IN  Result([t |-> "list", v |-> [i \in 1..Len(d.v) |-> rs[i].d]],
                    SumSeq([i \in 1..Len(d.v) |-> rs[i].modified]),
                    SumSeq([i \in 1..Len(d.v) |-> rs[i].ignored]),
                    \E i \in 1..Len(d.v) : rs[i].raised)
    ELSE IF d.t \in {"str", "path"}
    THEN IdLeaf(d, to_replace)
    ELSE Result(d, 0, 0, FALSE)

----------------------------------------------------------------------------
(* The state of a state machine that a behaviour does not run *)

ReplaceIdle ==
    /\ rp_op = "none" /\ rp_in = [t |-> "other", v |-> <<>>]
    /\ rp_map = <<>> /\ rp_out = NoResult

FieldIdle ==
    /\ fd_func = "none" /\ fd_map = <<>> /\ fd_table = <<>> /\ fd_disk = <<>>
    /\ fd_i = 0 /\ fd_pc = "idle" /\ fd_log = <<>> /\ fd_modified = 0

FilesIdle ==
    /\ fl_jobs = <<>> /\ fl_files = <<>> /\ fl_dirs = {} /\ fl_j = 0
    /\ fl_pc = "idle" /\ fl_k = 0 /\ fl_chunks = <<>> /\ fl_done = {}
    /\ fl_called = {} /\ fl_twice = {}
    /\ fl_stage = "idle" /\ fl_started = {} /\ fl_finished = {}

PipeIdle ==
    /\ pp_pc = "idle" /\ pp_map = <<>> /\ pp_db = <<>> /\ pp_db0 = <<>>
    /\ pp_ids = <<>> /\ pp_dups = <<>> /\ pp_old_ids = <<>> /\ pp_acked = FALSE
    /\ pp_col = 0 /\ pp_rows = {}

\* Python's None where a path is expected
None == [root |-> <<"None">>, segs |-> <<>>]

TargetIdle ==
    /\ tg_job = <<>> /\ tg_env = <<>> /\ tg_fs = <<>> /\ tg_pc = "idle"
    /\ tg_ret = None /\ tg_copied = {} /\ tg_rewritten = {}

\* what jf_date_str_to_python_ns gives before it is called
NoStamp == [t |-> 0, raised |-> FALSE, called |-> FALSE]

StampIdle == st_ns = 0 /\ st_str = <<>> /\ st_back = NoStamp

DatesIdle ==
    /\ dt_table0 = <<>> /\ dt_table = <<>> /\ dt_fs = {} /\ dt_env = <<>>
    /\ dt_parallel = FALSE /\ dt_outs = <<>> /\ dt_pc = "idle"

MoveIdle ==
    /\ mv_map = <<>> /\ mv_fs0 = {} /\ mv_fs = {} /\ mv_left = {}
    /\ mv_moved = {} /\ mv_pc = "idle"

----------------------------------------------------------------------------
(* SpecReplace: one call of a replacer on one leaf *)

\* Longest leaf, in "/"-separated pieces, handed to each replacer
MaxRootPieces == 4
MaxIdPieces == 4

\* Every str that is at most n pieces of `pieces` joined by "/"
LeafStrings(pieces, n) ==
    {JoinWith(s, <<"/">>) : s \in UNION {[1..k -> pieces] : k \in 1..n}}

RootPieces == {<<>>, <<".">>, <<"a">>, <<"b">>, <<"c">>}

IdPieces == {<<>>, <<"k">>, <<"8">>, <<"8","3">>, <<"8","3","a">>, <<"f","1","b">>,
             <<"8","3","a",".","j">>}

SlashEntry(slash) == Entry(TPS, slash)

\* path mappings: one or two prefixes, the reserved key first or last; two
\* prefixes go to two places, to one place, or one into the other's target
PathKeys == {<<"/","a","/","b">>, <<"/","a">>, <<"a">>}
PathTargets == {<<"/","x">>, <<"y","/","z">>}
PathPairs ==
    {<<Entry(k, v)>> : k \in PathKeys, v \in PathTargets}
    \cup {<<Entry(kk[1], <<"/","x">>), Entry(kk[2], <<"/","y">>)>> :
             kk \in {x \in PathKeys \X PathKeys : x[1] # x[2]}}
    \cup {<<Entry(<<"/","a">>, <<"/","x">>), Entry(<<"a">>, v)>> :
             v \in {<<"/","x">>, <<"/","x","/","y">>}}
PathMaps ==
    {m \o <<SlashEntry(<<"/">>)>> : m \in PathPairs}
    \cup {<<SlashEntry(<<"\\">>)>> \o m : m \in PathPairs}

\* identifier mappings: old -> new, compact strings of one length
IdMaps ==
    {<<Entry(<<"8","3","a">>, <<"f","1","b">>), SlashEntry(<<"/">>)>>,
     <<Entry(<<"8","3","a">>, <<"f","1","b">>),
       Entry(<<"f","1","b">>, <<"8","3","c">>), SlashEntry(<<"/">>)>>,
     <<Entry(<<"f","1","b">>, <<"8","3","c">>),
       Entry(<<"8","3","a">>, <<"f","1","b">>), SlashEntry(<<"\\">>)>>}

OtherVal == [t |-> "other", v |-> <<>>]

\* a dict built from a list of items: a key met again keeps its place and
\* takes the later value
DictOf(items) ==
    LET first(i) == \A j \in 1..(i - 1) : items[j].k # items[i].k
        at == SelectSeq([i \in 1..Len(items) |-> i], first)
        last(k) == CHOOSE i \in 1..Len(items) :
                      /\ items[i].k = k
                      /\ \A j \in 1..Len(items) : items[j].k = k => j <= i
    IN  [n \in 1..Len(at) |-> [k |-> items[at[n]].k, v |-> items[last(items[at[n]].k)].v]]

\* config.py lines 15-29: path_map.copy() updated with the base entries
get_path_replacements(self) ==
    LET w == self.windows_root_path
        l == self.linux_root_path
        base_path_replacements ==
            <<SlashEntry(<<"/">>),
              Entry(w \o <<"/","c","o","n","f","i","g">>, l \o <<"/","c","o","n","f","i","g">>),
              Entry(w \o <<"/","c","a","c","h","e">>, l \o <<"/","c","a","c","h","e">>),
              Entry(w \o <<"/","l","o","g">>, l \o <<"/","l","o","g">>),
              Entry(w, l \o <<"/","d","a","t","a">>),
              Entry(w \o <<"/","t","r","a","n","s","c","o","d","e","s">>,
                    l \o <<"/","t","r","a","n","s","c","o","d","e","s">>),
              Entry(self.windows_ffmpeg_path, self.linux_ffmpeg_path),
              Entry(<<"%","M">>, <<"%","M">>),
              Entry(<<"%","A">>, <<"%","A">>)>>
        items == DictOf(self.path_map \o base_path_replacements)
    IN  [i \in 1..Len(items) |-> Entry(items[i].k, items[i].v)]

\* Configurations: the install roots "w" and "/l", ffmpeg "f" and "/g", and
\* a path_map that is empty, lists a library's subfolder before the library,
\* or moves the log folder elsewhere
Configs ==
    [windows_root_path : {<<"w">>}, linux_root_path : {<<"/","l">>},
     windows_ffmpeg_path : {<<"f">>}, linux_ffmpeg_path : {<<"/","g">>},
     path_map : {<<>>,
                 <<Entry(<<"m","/","s">>, <<"/","n","/","s">>), Entry(<<"m">>, <<"/","n">>)>>,
                 <<Entry(<<"w","/","l","o","g">>, <<"/","u">>)>>}]

\* What json.load returns (line 883) and the Path get_target hands over
\* (line 767): str and Path leaves, a number, lists and dicts of them
NestedValues(kind) ==
    LET strs == LeafStrings(RootPieces \ {<<"c">>}, 3)
        some == {StrVal(<<"/","a","/","b">>), StrVal(<<"b","/","/","a">>),
                 PathVal(<<"/","a","/","b">>), PathVal(<<"b","/","a">>),
                 PathVal(<<"b">>), OtherVal}
        lists == {[t |-> "list", v |-> <<x, y>>] : x, y \in some}
    IN  CASE kind = "path" -> {PathVal(as_posix(PathOf(s))) : s \in strs} \cup {OtherVal}
          [] kind = "list" -> lists
          [] kind = "dict" ->
                {[t |-> "dict", v |-> <<<<"k", x>>, <<"l", x.v[1]>>>>] : x \in lists}

InitReplace ==
    /\ mode = "replace"
    /\ FieldIdle /\ FilesIdle /\ PipeIdle /\ TargetIdle /\ StampIdle /\ DatesIdle /\ MoveIdle
    /\ \/ /\ rp_op = "root"
          /\ rp_in \in {StrVal(s) : s \in LeafStrings(RootPieces, MaxRootPieces)}
          /\ rp_map \in PathMaps
       \/ /\ rp_op = "value"
          /\ \E kind \in {"path", "list", "dict"} : rp_in \in NestedValues(kind)
          /\ rp_map \in PathMaps
       \/ /\ rp_op = "id"
          /\ rp_in \in {StrVal(s) : s \in LeafStrings(IdPieces, MaxIdPieces)}
          /\ rp_map \in IdMaps
       \/ /\ rp_op = "config"
          /\ \E self \in Configs : rp_map = get_path_replacements(self)
          /\ \E i \in 1..Len(rp_map), rest \in {<<>>, <<"/","x">>} :
                rp_in = StrVal(rp_map[i].k \o rest)
    /\ rp_out = NoResult

CallRootReplacer ==
    /\ mode = "replace" /\ rp_op \in {"root", "value", "config"} /\ rp_out = NoResult
    /\ rp_out' = recursive_root_path_replacer(rp_in, rp_map)
    /\ UNCHANGED <<mode, mv_vars, st_vars, dt_vars, tg_vars, rp_op, rp_in, rp_map, fd_vars, fl_vars, pp_vars>>

CallIdReplacer ==
    /\ mode = "replace" /\ rp_op = "id" /\ rp_out = NoResult
    /\ rp_out' = recursive_id_path_replacer(rp_in, rp_map)
    /\ UNCHANGED <<mode, mv_vars, st_vars, dt_vars, tg_vars, rp_op, rp_in, rp_map, fd_vars, fl_vars, pp_vars>>

NextReplace == CallRootReplacer \/ CallIdReplacer

SpecReplace == InitReplace /\ [][NextReplace]_vars

----------------------------------------------------------------------------
(* Claims about the replacers (SpecReplace) *)

RpCalled(op) == mode = "replace" /\ rp_op = op /\ rp_out.modified >= 0

RpSlash == Lookup(rp_map, TPS)

\* the returned str cut at the target separator
RpOutPieces == SplitOn(rp_out.d.v, RpSlash[1])

RpOutSegs == SelectSegs(RpOutPieces)

\* the pieces a root contributes in front of the segments
LeadPieces(root) == [i \in 1..Len(root) |-> <<>>]

ExampleMap ==
    <<Entry(<<"/","a","/","b">>, <<"/","x">>), Entry(<<"/","a">>, <<"/","y">>),
      SlashEntry(<<"/">>)>>

\* C3: the leaf is rewritten with the first entry, in mapping order, whose
\* source prefix it equals or is nested under: the result is that entry's
\* target followed by the rest of the leaf's path; with
\* [("/a/b","/x"), ("/a","/y")], "/a/b/c" becomes "/x/c".
C3_PrefixPrecedence ==
    RpCalled("root") =>
        LET p == PathOf(rp_in.v)
            cover == {i \in 1..Len(rp_map) :
                         LET o == PathOf(rp_map[i].k)
                         IN  o.root = p.root /\ IsPrefix(o.segs, p.segs)}
        IN  /\ cover # {} =>
                LET i == CHOOSE i \in cover : \A j \in cover : i <= j
                    o == PathOf(rp_map[i].k)
                    dst == PathOf(rp_map[i].v)
                IN  /\ ~rp_out.raised /\ rp_out.modified = 1
                    /\ RpOutPieces = LeadPieces(dst.root) \o dst.segs
                                       \o Drop(p.segs, Len(o.segs))
            /\ (rp_map = ExampleMap /\ rp_in.v = <<"/","a","/","b","/","c">>)
                   => rp_out.d.v = <<"/","x","/","c">>

C3_Witness ==
    /\ RpCalled("root") /\ rp_map = ExampleMap
    /\ rp_in.v = <<"/","a","/","b","/","c">>
    /\ rp_out.d.v = <<"/","x","/","c">> /\ rp_out.modified = 1

RECURSIVE LeavesOf(_)
\* the str and Path leaves of a value
LeavesOf(d) ==
    IF d.t = "list" THEN UNION {LeavesOf(d.v[i]) : i \in 1..Len(d.v)}
    ELSE IF d.t = "dict" THEN UNION {LeavesOf(d.v[i][2]) : i \in 1..Len(d.v)}
    ELSE IF d.t \in {"str", "path"} THEN {d}
    ELSE {}

RootCalled == mode = "replace" /\ rp_op \in {"root", "value"} /\ rp_out.modified >= 0

\* C16: a value none of whose str or Path leaves equals or is nested under a
\* key of the mapping is returned equal, leaf types included, with 0 modified
C16_NoOpUnchanged ==
    (RootCalled /\ \A leaf \in LeavesOf(rp_in) : FirstMatch(PathOf(leaf.v), rp_map) = 0) =>
        /\ ~rp_out.raised
        /\ rp_out.d = rp_in
        /\ rp_out.modified = 0

\* the inverse mapping: every target -> source pair, in the same order
Inverse(to_replace) ==
    [i \in 1..Len(to_replace) |->
        IF to_replace[i].k = TPS \/ ~to_replace[i].str THEN to_replace[i]
        ELSE Entry(to_replace[i].v, to_replace[i].k)]

\* every str or Path leaf equals or is nested under a key of the mapping
Covered ==
    \A leaf \in LeavesOf(rp_in) :
        \E i \in 1..Len(rp_map) :
            rp_map[i].k # TPS /\ is_relative_to(PathOf(leaf.v), rp_map[i].k)

\* what the replacer returns for the result under the inverse mapping
RoundTrip == recursive_root_path_replacer(rp_out.d, Inverse(rp_map))

\* C17 as stated: replacing with M and then with the inverse of M gives back
\* a value whose leaves are all covered by M
C17_RoundTripAny ==
    (RootCalled /\ ~rp_out.raised /\ Covered) => RoundTrip.d = rp_in

\* no target of the mapping equals or is nested under another target
TargetsApart ==
    \A i, j \in 1..Len(rp_map) :
        (i # j /\ rp_map[i].k # TPS /\ rp_map[j].k # TPS) =>
            ~is_relative_to(PathOf(rp_map[i].v), rp_map[j].v)

\* every leaf is a str written the way pathlib prints the path
Normalised ==
    \A leaf \in LeavesOf(rp_in) : leaf.t = "str" /\ leaf.v = as_posix(PathOf(leaf.v))

\* C17: with "/" as target separator and targets that are apart, replacing
\* with M and then with the inverse of M gives back a value whose leaves are
\* normalised str paths covered by M
C17_RoundTrip ==
    (RootCalled /\ ~rp_out.raised /\ Covered
        /\ RpSlash = <<"/">> /\ TargetsApart /\ Normalised) =>
            /\ ~RoundTrip.raised
            /\ RoundTrip.d = rp_in

\* "/a/b/c" went to "/x/c" by the first of two entries and came back
C17_Witness ==
    /\ RootCalled /\ rp_map = ExampleMap
    /\ rp_in = StrVal(<<"/","a","/","b","/","c">>)
    /\ rp_out.d = StrVal(<<"/","x","/","c">>)
    /\ RoundTrip.d = rp_in

IdMapped(seg) == IsHexLike(seg) /\ Lookup(rp_map, seg) # <<>>

\* segment j of the leaf is a mapped identifier, not the last segment, and
\* its containing folder is a prefix of it
ShardedAt(segs, j) ==
    /\ j >= 2 /\ j < Len(segs)
    /\ IdMapped(segs[j]) /\ IsPrefix(segs[j - 1], segs[j])

Resharded(segs, j) ==
    LET new == Lookup(rp_map, segs[j])
    IN  [segs EXCEPT ![j - 1] = Take(new, Len(segs[j - 1])), ![j] = new]

\* segment j is the one the replacer picks: the stem is no mapped
\* identifier, no other mapped identifier precedes it, it does not recur below
SelectedAt(p, j) ==
    /\ ~IdMapped(PathStem(p))
    /\ j < Len(p.segs) /\ IdMapped(p.segs[j])
    /\ \A i \in 1..(j - 1) : IdMapped(p.segs[i]) => p.segs[i] = p.segs[j]
    /\ \A i \in (j + 1)..Len(p.segs) : p.segs[i] # p.segs[j]

\* C4 as stated: wherever a mapped identifier sits under a folder that is a
\* prefix of it, identifier and folder are replaced and no other segment is.
C4_ReshardEveryOccurrence ==
    RpCalled("id") =>
        LET p == PathOf(rp_in.v)
        IN  \A j \in 1..Len(p.segs) :
                ShardedAt(p.segs, j) =>
                    /\ ~rp_out.raised
                    /\ RpOutPieces = LeadPieces(p.root) \o Resharded(p.segs, j)

\* C4 (amended): when the identifier segment is the one the replacer picks
\* and its containing folder is a prefix of the old identifier, the result is
\* the same path with the segment replaced by the new identifier and the
\* folder by the same-length prefix of the new identifier.
C4_Reshard ==
    RpCalled("id") =>
        LET p == PathOf(rp_in.v)
        IN  \A j \in 1..Len(p.segs) :
                (ShardedAt(p.segs, j) /\ SelectedAt(p, j)) =>
                    /\ ~rp_out.raised /\ rp_out.modified = 1
                    /\ RpOutPieces = LeadPieces(p.root) \o Resharded(p.segs, j)

C4_Witness ==
    /\ RpCalled("id")
    /\ rp_in.v = <<"k","/","8","3","/","8","3","a","/","k">>
    /\ rp_out.d.v = <<"k","/","f","1","/","f","1","b","/","k">>

\* C5 as stated: in every modified path, stem match or segment match, a
\* containing segment that was a prefix of the old identifier is afterwards
\* the same-length prefix of the new identifier.
C5_ShardingAnyMatch ==
    (RpCalled("id") /\ rp_out.modified = 1 /\ ~rp_out.raised) =>
        LET p == PathOf(rp_in.v)
            n == Len(p.segs)
        IN  /\ (IdMapped(PathStem(p)) /\ n >= 2
                  /\ IsPrefix(p.segs[n - 1], PathStem(p)))
                   => RpOutSegs[n - 1] = Take(Lookup(rp_map, PathStem(p)),
                                              Len(p.segs[n - 1]))
            /\ \A j \in 2..n :
                   (SelectedAt(p, j) /\ IsPrefix(p.segs[j - 1], p.segs[j]))
                       => RpOutSegs[j - 1] = Take(Lookup(rp_map, p.segs[j]),
                                                  Len(p.segs[j - 1]))

\* C5 (amended): in every path modified through a match of an intermediate
\* segment, a containing segment that was a prefix of the old identifier is
\* afterwards the same-length prefix of the new identifier.
C5_ShardingSegmentMatch ==
    (RpCalled("id") /\ rp_out.modified = 1 /\ ~rp_out.raised) =>
        LET p == PathOf(rp_in.v)
        IN  \A j \in 2..Len(p.segs) :
                (SelectedAt(p, j) /\ IsPrefix(p.segs[j - 1], p.segs[j]))
                    => /\ Len(RpOutSegs) = Len(p.segs)
                       /\ Len(RpOutSegs[j - 1]) = Len(p.segs[j - 1])
                       /\ IsPrefix(RpOutSegs[j - 1], RpOutSegs[j])
                       /\ RpOutSegs[j] = Lookup(rp_map, p.segs[j])

C5_Witness ==
    /\ RpCalled("id") /\ rp_out.modified = 1
    /\ rp_in.v = <<"/","8","/","8","3","a","/","k">>
    /\ RpOutSegs = << <<"f">>, <<"f","1","b">>, <<"k">> >>

----------------------------------------------------------------------------
(* update_db_table: one table with a json column "data", a path column     *)
(* "path" and a jf_image column "Images" (TypedBaseItems in todo_list_paths)*)

Replace(func, d, to_replace) ==
    IF func = "root" THEN recursive_root_path_replacer(d, to_replace)
    ELSE recursive_id_path_replacer(d, to_replace)

NoneVal == [t |-> "other", v |-> <<>>]

\* A json cell: empty (NULL or ""), or a document; dumps says whether its
\* bytes are what json.dumps prints for the document (", " and ": "
\* separators, ASCII escapes)
EmptyJson == [empty |-> TRUE, dumps |-> FALSE, val |-> NoneVal]
JsonCell(dumps, val) == [empty |-> FALSE, dumps |-> dumps, val |-> val]

Row(data, path, images) == [data |-> data, path |-> path, Images |-> images]

\* (mutant) every "*" field of an entry goes through the replacer
ImgEntry_AllFields(entry, func, to_replace) ==
    LET fs == SplitOn(entry, "*")
    IN  The({[s |-> JoinWith([k \in 1..Len(fs) |-> rs[k].d.v], <<"*">>),
              modified |-> rs[1].modified, ignored |-> rs[1].ignored,
              raised |-> rs[1].raised] :
             rs \in {[k \in 1..Len(fs) |-> Replace(func, StrVal(fs[k]), to_replace)]}})

\* lines 663-671: one entry of a jf_image value
ImgEntry(entry, func, to_replace) ==
    IF entry = <<>>
    THEN [s |-> entry, modified |-> 0, ignored |-> 0, raised |-> FALSE]
    ELSE LET fs == SplitOn(entry, "*")
         IN  The({[s |-> JoinWith(<<r.d.v>> \o Tail(fs), <<"*">>),
                   modified |-> r.modified, ignored |-> r.ignored,
                   raised |-> r.raised] :
                  r \in {Replace(func, StrVal(fs[1]), to_replace)}})

\* (mutant) empty entries are dropped when the value is put back together
ImgValue_DropEmpty(imgs, func, to_replace) ==
    LET es == SplitOn(imgs, "|")
    IN  The({[s |-> JoinWith(SelectSegs([j \in 1..Len(es) |-> rs[j].s]), <<"|">>),
              modified |-> SumSeq([j \in 1..Len(es) |-> rs[j].modified]),
              ignored |-> SumSeq([j \in 1..Len(es) |-> rs[j].ignored]),
              raised |-> \E j \in 1..Len(es) : rs[j].raised] :
             rs \in {[j \in 1..Len(es) |-> ImgEntry(es[j], func, to_replace)]}})

\* lines 661-673: a non-empty jf_image value
ImgValue(imgs, func, to_replace) ==
    LET es == SplitOn(imgs, "|")
    IN  The({[s |-> JoinWith([j \in 1..Len(es) |-> rs[j].s], <<"|">>),
              modified |-> SumSeq([j \in 1..Len(es) |-> rs[j].modified]),
              ignored |-> SumSeq([j \in 1..Len(es) |-> rs[j].ignored]),
              raised |-> \E j \in 1..Len(es) : rs[j].raised] :
             rs \in {[j \in 1..Len(es) |-> ImgEntry(es[j], func, to_replace)]}})

\* lines 626-673: the result dict of one row, as [cols, row, modified, raised]:
\* the columns it holds and the row with their new values
RowResult(row, func, to_replace) ==
    LET hasJ == ~row.data.empty
        hasI == row.Images # <<>>
    IN  The({[cols |-> (IF hasJ THEN {"data"} ELSE {}) \cup {"path"}
                       \cup (IF hasI THEN {"Images"} ELSE {}),
              row |-> [data |-> IF hasJ THEN JsonCell(TRUE, jr.d) ELSE row.data,
                       path |-> pr.d,
                       Images |-> IF hasI THEN ir.s ELSE row.Images],
              modified |-> (IF hasJ THEN jr.modified ELSE 0) + pr.modified
                           + (IF hasI THEN ir.modified ELSE 0),
              raised |-> (hasJ /\ jr.raised) \/ pr.raised \/ (hasI /\ ir.raised)] :
             jr \in {Replace(func, row.data.val, to_replace)},
             pr \in {Replace(func, row.path, to_replace)},
             ir \in {ImgValue(row.Images, func, to_replace)}})

\* Rows per table in SpecField
MaxRows == 2

FieldPathMap == <<Entry(<<"/","a">>, <<"/","x">>), SlashEntry(<<"/">>)>>
FieldIdMap == <<Entry(<<"8","3","a">>, <<"f","1","b">>), SlashEntry(<<"/">>)>>

DocMatch == [t |-> "dict", v |-> << <<"p", StrVal(<<"/","a","/","m">>)>> >>]
DocNoMatch == [t |-> "dict",
               v |-> << <<"n", [t |-> "list", v |-> <<StrVal(<<"x">>), NoneVal>>]>> >>]
DocId == [t |-> "dict", v |-> << <<"p", StrVal(<<"8","3","/","8","3","a",".","j">>)>> >>]

RootRows ==
    {Row(JsonCell(FALSE, DocMatch), StrVal(<<"/","a","/","m">>),
         <<"/","a","/","p","*","1","*","P">>),
     Row(EmptyJson, NoneVal, <<>>),
     Row(JsonCell(FALSE, DocNoMatch), StrVal(<<"x","/","y">>),
         <<"x","*","1","|","|","y","*","2">>),
     Row(JsonCell(TRUE, DocNoMatch), StrVal(<<"x","/","y">>), <<>>),
     Row(EmptyJson, StrVal(<<"/","a","/","m">>),
         <<"x","*","1","|","|","/","a","/","q">>),
     Row(JsonCell(TRUE, DocMatch), StrVal(<<"x","/","y">>),
         <<"*","1","|","/","a","/","p","|">>),
     Row(EmptyJson, StrVal(<<"x","/","y">>), <<>>),
     Row(JsonCell(FALSE, DocNoMatch), NoneVal, <<"/","a","/","p","*","/","a","/","q","*","P">>)}

IdRows ==
    {Row(JsonCell(FALSE, DocId), StrVal(<<"k","/","8","3","/","8","3","a","/","k">>),
         <<"k","/","8","/","8","3","a","/","p","*","1","|">>),
     Row(EmptyJson, StrVal(<<"k">>), <<"k","*","1">>),
     Row(EmptyJson, StrVal(<<"8","3","a","/","k">>), <<>>)}

Tables(rows) == UNION {[1..n -> rows] : n \in 1..MaxRows}

InitField ==
    /\ mode = "field"
    /\ ReplaceIdle /\ FilesIdle /\ PipeIdle /\ TargetIdle /\ StampIdle /\ DatesIdle /\ MoveIdle
    /\ \/ fd_func = "root" /\ fd_map = FieldPathMap /\ fd_table \in Tables(RootRows)
       \/ fd_func = "id" /\ fd_map = FieldIdMap /\ fd_table \in Tables(IdRows)
    /\ fd_disk = fd_table
    /\ fd_i = 0 /\ fd_pc = "loop" /\ fd_log = <<>> /\ fd_modified = 0

FieldAtRow == mode = "field" /\ fd_pc = "loop" /\ fd_i < Len(fd_table)

\* lines 610-705 for the next rowid of todo: the row is read, rewritten and
\* written back; an exception of the replacer ends the program
FieldRow ==
    /\ FieldAtRow
    /\ \E id \in {fd_i + 1}, r \in {RowResult(fd_table[fd_i + 1], fd_func, fd_map)} :
           IF r.raised
           THEN /\ fd_pc' = "crashed"
                /\ UNCHANGED <<fd_table, fd_i, fd_log, fd_modified>>
           ELSE /\ fd_table' = [fd_table EXCEPT ![id] = r.row]
                /\ fd_log' = Append(fd_log, [rowid |-> id, cols |-> r.cols,
                                             old |-> fd_table[id], new |-> r.row])
                /\ fd_modified' = fd_modified + r.modified
                /\ fd_i' = id
                /\ fd_pc' = "loop"
    /\ UNCHANGED <<mode, mv_vars, st_vars, dt_vars, tg_vars, rp_vars, fl_vars, pp_vars, fd_func, fd_map, fd_disk>>

\* lines 613-616: the SELECT of the row returns other than one row
FieldRowSkipped ==
    /\ FieldAtRow
    /\ fd_i' = fd_i + 1
    /\ UNCHANGED <<mode, mv_vars, st_vars, dt_vars, tg_vars, rp_vars, fl_vars, pp_vars, fd_func, fd_map, fd_table, fd_disk, fd_pc, fd_log,
                   fd_modified>>

\* (mutant) what was written so far is committed before the exit
FieldWriteFails_Commits ==
    /\ FieldAtRow
    /\ ~RowResult(fd_table[fd_i + 1], fd_func, fd_map).raised
    /\ fd_pc' = "exited"
    /\ fd_disk' = fd_table
    /\ UNCHANGED <<mode, mv_vars, st_vars, dt_vars, tg_vars, rp_vars, fl_vars, pp_vars, fd_func, fd_map, fd_table, fd_i, fd_log,
                   fd_modified>>

\* lines 693-705: the UPDATE raises, or matches no row: exit()
FieldWriteFails ==
    /\ FieldAtRow
    /\ ~RowResult(fd_table[fd_i + 1], fd_func, fd_map).raised
    /\ fd_pc' = "exited"
    /\ UNCHANGED <<mode, mv_vars, st_vars, dt_vars, tg_vars, rp_vars, fl_vars, pp_vars, fd_func, fd_map, fd_table, fd_disk, fd_i, fd_log,
                   fd_modified>>

\* lines 706-714: con.commit() (preview is False), con.close()
FieldCommit ==
    /\ mode = "field" /\ fd_pc = "loop" /\ fd_i = Len(fd_table)
    /\ fd_disk' = fd_table
    /\ fd_pc' = "done"
    /\ UNCHANGED <<mode, mv_vars, st_vars, dt_vars, tg_vars, rp_vars, fl_vars, pp_vars, fd_func, fd_map, fd_table, fd_i, fd_log, fd_modified>>

NextField == FieldRow \/ FieldRowSkipped \/ FieldWriteFails \/ FieldCommit

SpecField == InitField /\ [][NextField]_vars

----------------------------------------------------------------------------
(* Claims about update_db_table *)

Columns == {"data", "path", "Images"}

\* The UPDATE statements issued so far, as [rowid, cols, old, new]
Updates == {fd_log[k] : k \in 1..Len(fd_log)}

\* The content of column c differs between the row read and the row written
ColChanged(e, c) ==
    IF c = "data" THEN e.old.data.val # e.new.data.val ELSE e.old[c] # e.new[c]

\* C6: every UPDATE statement sets only columns whose value changed, so a row
\* in which no column changed gets no UPDATE and keeps its bytes
C6_WritesOnlyChanged ==
    mode = "field" =>
        \A e \in Updates :
            /\ \A c \in e.cols : ColChanged(e, c)
            /\ (\A c \in Columns : ~ColChanged(e, c)) => e.new = e.old

\* The first "*" field of an entry, and the fields after it
ImgFields(entry) == SplitOn(entry, "*")

\* C7: in a written jf_image value the entries are as many and in the same
\* order as before, empty entries stay empty, a non-empty entry keeps the
\* number of its fields and every field but the first, and its first field
\* is what the replacer returns for the old first field
C7_CompositeFrame ==
    mode = "field" =>
        \A e \in Updates :
            "Images" \in e.cols =>
                LET o == SplitOn(e.old.Images, "|")
                    n == SplitOn(e.new.Images, "|")
                IN  /\ Len(n) = Len(o)
                    /\ \A j \in 1..Len(o) :
                          IF o[j] = <<>> THEN n[j] = <<>>
                          ELSE /\ Len(ImgFields(n[j])) = Len(ImgFields(o[j]))
                               /\ Tail(ImgFields(n[j])) = Tail(ImgFields(o[j]))
                               /\ ImgFields(n[j])[1] =
                                    Replace(fd_func, StrVal(ImgFields(o[j])[1]), fd_map).d.v

\* "x*1||/a/q" was written as "x*1||/x/q": the second entry is empty, the
\* first has an unmatched first field, the third is rewritten
C7_Witness ==
    /\ mode = "field"
    /\ \E e \in Updates :
          /\ e.old.Images = <<"x","*","1","|","|","/","a","/","q">>
          /\ e.new.Images = <<"x","*","1","|","|","/","x","/","q">>

\* C20: a row whose SELECT gives other than one row is passed over, nothing
\* is written for it and the loop goes on with the next rowid; when an UPDATE
\* matches no row the run ends there: no later row is read or written and
\* what was written before is never committed
C20_FailurePolicy ==
    [][mode = "field" =>
          /\ (fd_pc = "loop" /\ fd_i' = fd_i + 1 /\ fd_log' = fd_log) =>
                fd_pc' = "loop" /\ fd_table' = fd_table /\ fd_disk' = fd_disk
          /\ fd_pc' = "exited" =>
                /\ fd_pc = "loop"
                /\ fd_disk' = fd_disk /\ fd_table' = fd_table
                /\ fd_i' = fd_i /\ fd_log' = fd_log
          /\ fd_pc # "exited"
          /\ fd_disk' # fd_disk => fd_pc' = "done" /\ fd_i = Len(fd_table)]_vars

\* The first row was rewritten, the UPDATE of the second matched no row, and
\* the file still has the first row as it was
C20_Witness ==
    /\ mode = "field" /\ fd_pc = "exited"
    /\ fd_i = 1 /\ Len(fd_log) = 1
    /\ fd_table[1] # fd_disk[1]

----------------------------------------------------------------------------
(* process_files: one pass over a job list; files are numbered as the glob  *)
(* lists them                                                               *)

\* if srcglob_len < 100, line 980
SeqLimit == 100

\* line 1037
CHUNK_SIZE == 2000

\* line 740 (get_target only ever resets it to False)
user_wants_inplace_warning == FALSE

Min(a, b) == IF a < b THEN a ELSE b

\* lines 62-67: the chunks the generator yields, in order
partition(obj, num) ==
    IF Len(obj) = 0 \/ num = 0 THEN <<>>
    ELSE LET k == Len(obj) \div num
             m == Len(obj) % num
         IN  [i \in 1..k |-> SubSeq(obj, (i - 1) * num + Min(num, m) + 1,
                                     i * num + Min(num, m))]

\* Full chunks of the largest expansion in SpecFiles
MaxChunks == 2

\* Sizes of the wildcard's expansion: around SeqLimit and around the
\* multiples of CHUNK_SIZE
FileCounts ==
    {0, 1, 2, SeqLimit - 1, SeqLimit, SeqLimit + 50}
        \cup {c * CHUNK_SIZE + r - 1 : c \in 1..MaxChunks, r \in 0..2}

WildJob == [wild |-> TRUE, src |-> 0]
FileJob(f) == [wild |-> FALSE, src |-> f]

\* todo lists: a wildcard alone, after a job for one of its files, or twice
JobLists == {<<WildJob>>, <<FileJob(2), WildJob>>, <<WildJob, WildJob>>}

InitFiles ==
    /\ mode = "files"
    /\ ReplaceIdle /\ FieldIdle /\ PipeIdle /\ TargetIdle /\ StampIdle /\ DatesIdle /\ MoveIdle
    /\ fl_jobs \in JobLists
    /\ \E n \in FileCounts :
          /\ fl_files = [i \in 1..n |-> i]
          /\ fl_dirs \in {{}, {1} \cap 1..n, {n} \cap 1..n}
    /\ fl_j = 0 /\ fl_pc = "jobs" /\ fl_k = 0 /\ fl_chunks = <<>>
    /\ fl_done = {} /\ fl_called = {} /\ fl_twice = {}
    /\ fl_stage = "paths" /\ fl_started = {<<"paths", 0>>} /\ fl_finished = {}

\* process_func(source=src, ...) for every src of S
Dispatch(S) ==
    /\ fl_called' = fl_called \cup S
    /\ fl_twice' = fl_twice \cup (S \cap fl_called)

\* (mutant) no file counts as processed
AlreadyDone_Never(src, done) == FALSE

\* if src in done, lines 984, 1009, 1050, and if src in donelist, line 940
AlreadyDone(src, done) == src \in done

\* the jobs of the running stage that have run to their end, once fl_j' is set
JobsFinished(j) == fl_finished \cup {<<fl_stage, i>> : i \in 1..j}

FilesAtJob == mode = "files" /\ fl_pc = "jobs" /\ fl_j < Len(fl_jobs)

\* lines 1047-1068: a job without wildcards
FilesSingleJob ==
    /\ FilesAtJob /\ ~fl_jobs[fl_j + 1].wild
    /\ LET source == fl_jobs[fl_j + 1].src
       IN  IF AlreadyDone(source, fl_done)
           THEN UNCHANGED <<fl_done, fl_called, fl_twice>>
           ELSE fl_done' = fl_done \cup {source} /\ Dispatch({source})
    /\ fl_j' = fl_j + 1
    /\ fl_started' = fl_started \cup {<<fl_stage, fl_j + 1>>}
    /\ fl_finished' = JobsFinished(fl_j + 1)
    /\ UNCHANGED <<mode, mv_vars, st_vars, dt_vars, tg_vars, rp_vars, fd_vars, pp_vars, fl_jobs, fl_files, fl_dirs,
                   fl_pc, fl_k, fl_chunks, fl_stage>>

\* lines 972-980, 1005, 1028-1039: the wildcard is expanded and the branch
\* chosen; the pool branch partitions srcglob
FilesWildcardJob ==
    /\ FilesAtJob /\ fl_jobs[fl_j + 1].wild
    /\ LET srcglob_len == Len(fl_files)
           seq == \/ srcglob_len < SeqLimit
                  \/ srcglob_len >= SeqLimit /\ user_wants_inplace_warning
           loops == IF seq THEN srcglob_len ELSE Len(partition(fl_files, CHUNK_SIZE))
       IN  /\ fl_chunks' = IF seq THEN <<>> ELSE partition(fl_files, CHUNK_SIZE)
           /\ fl_pc' = IF loops = 0 THEN "jobs" ELSE IF seq THEN "seq" ELSE "pool"
           /\ fl_j' = IF loops = 0 THEN fl_j + 1 ELSE fl_j
           /\ fl_finished' = JobsFinished(IF loops = 0 THEN fl_j + 1 ELSE fl_j)
    /\ fl_k' = 0
    /\ fl_started' = fl_started \cup {<<fl_stage, fl_j + 1>>}
    /\ UNCHANGED <<mode, mv_vars, st_vars, dt_vars, tg_vars, rp_vars, fd_vars, pp_vars, fl_jobs, fl_files, fl_dirs,
                   fl_done, fl_called, fl_twice, fl_stage>>

\* lines 981-1003 (and 1006-1027): one iteration of for src in srcglob
FilesSeqFile ==
    /\ mode = "files" /\ fl_pc = "seq"
    /\ LET src == fl_files[fl_k + 1]
       IN  IF src \in fl_dirs \/ AlreadyDone(src, fl_done)
           THEN UNCHANGED <<fl_done, fl_called, fl_twice>>
           ELSE fl_done' = fl_done \cup {src} /\ Dispatch({src})
    /\ fl_k' = fl_k + 1
    /\ IF fl_k + 1 = Len(fl_files)
       THEN fl_pc' = "jobs" /\ fl_j' = fl_j + 1 /\ fl_finished' = JobsFinished(fl_j + 1)
       ELSE UNCHANGED <<fl_pc, fl_j, fl_finished>>
    /\ UNCHANGED <<mode, mv_vars, st_vars, dt_vars, tg_vars, rp_vars, fd_vars, pp_vars, fl_jobs, fl_files, fl_dirs,
                   fl_chunks, fl_stage, fl_started>>

\* lines 1041-1046 with process_files_proc, lines 937-961: mpool.map over one
\* chunk, every worker testing the done set as it was when the chunk began
FilesPoolChunk ==
    /\ mode = "files" /\ fl_pc = "pool"
    /\ LET srcglob == fl_chunks[fl_k + 1]
           donelist == {src \in Range(srcglob) :
                           src \notin fl_dirs /\ ~AlreadyDone(src, fl_done)}
       IN  fl_done' = fl_done \cup donelist /\ Dispatch(donelist)
    /\ fl_k' = fl_k + 1
    /\ IF fl_k + 1 = Len(fl_chunks)
       THEN fl_pc' = "jobs" /\ fl_j' = fl_j + 1 /\ fl_finished' = JobsFinished(fl_j + 1)
       ELSE UNCHANGED <<fl_pc, fl_j, fl_finished>>
    /\ UNCHANGED <<mode, mv_vars, st_vars, dt_vars, tg_vars, rp_vars, fd_vars, pp_vars, fl_jobs, fl_files, fl_dirs,
                   fl_chunks, fl_stage, fl_started>>

\* the for loop over lst is exhausted: process_files returns
FilesEnd ==
    /\ mode = "files" /\ fl_pc = "jobs" /\ fl_j = Len(fl_jobs)
    /\ fl_pc' = "finished"
    /\ fl_finished' = fl_finished \cup {<<fl_stage, 0>>}
    /\ UNCHANGED <<mode, mv_vars, st_vars, dt_vars, tg_vars, rp_vars, fd_vars, pp_vars, fl_jobs, fl_files, fl_dirs, fl_j,
                   fl_k, fl_chunks, fl_done, fl_called, fl_twice, fl_stage, fl_started>>

\* (mutant) the dates are updated before the id pass
NextStage_DatesEarly(stage) ==
    CASE stage = "paths" -> "get_ids"
      [] stage = "get_ids" -> "id_paths"
      [] stage = "id_paths" -> "dates"
      [] stage = "dates" -> "ids"
      [] OTHER -> "end"

\* program_main, lines 1447-1497: what it calls after `stage` has returned
NextStage(stage) ==
    CASE stage = "paths" -> "get_ids"
      [] stage = "get_ids" -> "id_paths"
      [] stage = "id_paths" -> "ids"
      [] stage = "ids" -> "dates"
      [] OTHER -> "end"

IsPass(stage) == stage \in {"paths", "id_paths", "ids"}

FilesReturned == mode = "files" /\ fl_pc \in {"finished", "returned"} /\ fl_stage # "end"

\* program_main calls process_files for the next pass: done = set(), line 965
MainNextPass ==
    /\ FilesReturned /\ IsPass(NextStage(fl_stage))
    /\ fl_stage' = NextStage(fl_stage)
    /\ fl_jobs' \in JobLists
    /\ fl_j' = 0 /\ fl_pc' = "jobs" /\ fl_k' = 0 /\ fl_chunks' = <<>>
    /\ fl_done' = {} /\ fl_called' = {} /\ fl_twice' = {}
    /\ fl_started' = fl_started \cup {<<NextStage(fl_stage), 0>>}
    /\ UNCHANGED <<mode, mv_vars, st_vars, dt_vars, tg_vars, rp_vars, fd_vars, pp_vars, fl_files, fl_dirs, fl_finished>>

\* program_main calls get_ids or update_file_dates and the call returns, or
\* it has nothing left to call
MainNextCall ==
    /\ FilesReturned /\ ~IsPass(NextStage(fl_stage))
    /\ fl_stage' = NextStage(fl_stage)
    /\ fl_pc' = "returned"
    /\ fl_started' = fl_started \cup {<<NextStage(fl_stage), 0>>}
    /\ fl_finished' = fl_finished \cup {<<NextStage(fl_stage), 0>>}
    /\ UNCHANGED <<mode, mv_vars, st_vars, dt_vars, tg_vars, rp_vars, fd_vars, pp_vars, fl_jobs, fl_files, fl_dirs, fl_j,
                   fl_k, fl_chunks, fl_done, fl_called, fl_twice>>

\* get_ids does not return: the operator ends the run at its prompt
MainGetIdsAborts ==
    /\ FilesReturned /\ NextStage(fl_stage) = "get_ids"
    /\ fl_stage' = "get_ids"
    /\ fl_pc' = "aborted"
    /\ fl_started' = fl_started \cup {<<"get_ids", 0>>}
    /\ UNCHANGED <<mode, mv_vars, st_vars, dt_vars, tg_vars, rp_vars, fd_vars, pp_vars, fl_jobs, fl_files, fl_dirs, fl_j,
                   fl_k, fl_chunks, fl_done, fl_called, fl_twice, fl_finished>>

NextFiles ==
    \/ FilesSingleJob \/ FilesWildcardJob \/ FilesSeqFile \/ FilesPoolChunk \/ FilesEnd
    \/ MainNextPass \/ MainNextCall \/ MainGetIdsAborts

SpecFiles == InitFiles /\ [][NextFiles]_vars

----------------------------------------------------------------------------
(* Claims about process_files *)

\* C1: when the pass over a job list with a wildcard job has finished, every
\* file of the expansion that is not a directory has been handed to the
\* content handler, whatever the size of the expansion
C1_EveryFileDispatched ==
    (mode = "files" /\ fl_pc = "finished") =>
        \A src \in Range(fl_files) \ fl_dirs : src \in fl_called

\* stage (or one of its jobs, j >= 1) has begun / has run to its end
Started(stage, j) == <<stage, j>> \in fl_started
Finished(stage, j) == <<stage, j>> \in fl_finished

\* C14: a job of a pass has begun only if the job before it has run to its
\* end, and a pass that has ended has no job left running; get_ids has begun
\* only after the path pass ended, the id-path pass only after get_ids
\* returned, the id pass only after the id-path pass ended, and
\* update_file_dates only after all three passes ended
C14_PipelineOrder ==
    mode = "files" =>
        /\ \A e \in fl_started :
              /\ e[2] > 1 => Finished(e[1], e[2] - 1)
              /\ e[2] >= 1 => Started(e[1], 0)
              /\ Finished(e[1], 0) => e \in fl_finished
        /\ Started("get_ids", 0) => Finished("paths", 0)
        /\ Started("id_paths", 0) => Finished("get_ids", 0)
        /\ Started("ids", 0) => Finished("id_paths", 0)
        /\ Started("dates", 0) =>
              Finished("paths", 0) /\ Finished("id_paths", 0) /\ Finished("ids", 0)

\* update_file_dates has been called after passes of two jobs each
C14_Witness ==
    /\ mode = "files" /\ Started("dates", 0)
    /\ Finished("paths", 2) /\ Finished("id_paths", 2) /\ Finished("ids", 2)

\* C15: when process_files is entered the processed-file set is empty, and
\* within a pass process_func is called at most once for a source file
C15_DispatchedOnce ==
    mode = "files" =>
        /\ fl_twice = {}
        /\ (fl_pc = "jobs" /\ fl_j = 0) => fl_done = {}
        /\ fl_called \subseteq fl_done

\* A pass after the first has ended in which a catch-all wildcard job met
\* files an earlier job of the pass had processed, in the pool branch
C15_Witness ==
    /\ mode = "files" /\ fl_pc = "finished" /\ fl_stage = "ids"
    /\ Len(fl_jobs) = 2 /\ fl_jobs[2].wild
    /\ Len(fl_files) >= SeqLimit
    /\ fl_called # {}

----------------------------------------------------------------------------
(* program_main on library.db: the path pass, get_ids, the id-path pass and *)
(* the id pass (update_db_table_ids) over TypedBaseItems(guid, type, Path,  *)
(* ParentId), guid unique, and AncestorIds(ItemId, AncestorId), the pair    *)
(* unique.  A guid is two bytes wide here.                                  *)

\* SQL NULL
Null == <<>>

ItemType == <<"M">>

ItemPathList ==
    << <<"/","p","/","m">>, <<"/","q","/","m">>, <<"/","r","/","m">>,
       <<"%","M","/","x">>, <<>> >>

\* The strings that get hashed; MD5 is taken to be injective on them
Hashed ==
    [i \in 1..Len(ItemPathList) |-> ItemType \o ItemPathList[i]]
        \o << ItemType \o <<"/","s","/","m">> >>

\* line 1074, two bytes of digest; some digests begin with the same byte
get_dotnet_MD5(s) ==
    LET i == CHOOSE k \in 1..Len(Hashed) : Hashed[k] = s
    IN  <<16 * ((i + 1) \div 2), (41 * i) % 256>>

HexDigits == <<"0","1","2","3","4","5","6","7","8","9","a","b","c","d","e","f">>

\* id_scanner.bid2sid: the bytes as lowercase hexadecimal, no separators
bid2sid(b) ==
    [i \in 1..(2 * Len(b)) |->
        IF i % 2 = 1 THEN HexDigits[(b[(i + 1) \div 2] \div 16) + 1]
        ELSE HexDigits[(b[i \div 2] % 16) + 1]]

\* id_scanner.sid2bid: the inverse of bid2sid
sid2bid(sid) ==
    LET val(c) == (CHOOSE k \in 1..16 : HexDigits[k] = c) - 1
    IN  [i \in 1..(Len(sid) \div 2) |-> 16 * val(sid[2 * i - 1]) + val(sid[2 * i])]

\* id_scanner.sid2did: the compact string cut into groups joined by "-"; the
\* groups 8-4-4-4-12 of a 16-byte id are the two halves of an id here
sid2did(sid) == Take(sid, Len(sid) \div 2) \o <<"-">> \o Drop(sid, Len(sid) \div 2)

\* N, the length of the ancestor string: half of the compact string
AncestorLen == 2

\* id_scanner.convert_ancestor_id: the first N characters of the compact string
convert_ancestor_id(sid) == Take(sid, AncestorLen)

\* path_replacements: one prefix moved, three prefixes merged into one, and a
\* prefix moved onto another that is itself moved on
PipeMaps ==
    {<<Entry(<<"/","p">>, <<"/","s">>), SlashEntry(<<"/">>)>>,
     <<Entry(<<"/","p">>, <<"/","s">>), Entry(<<"/","q">>, <<"/","s">>),
       Entry(<<"/","r">>, <<"/","s">>), SlashEntry(<<"/">>)>>,
     <<Entry(<<"/","p">>, <<"/","q">>), Entry(<<"/","q">>, <<"/","r">>),
       SlashEntry(<<"/">>)>>}

\* Items in TypedBaseItems
MaxItems == 3

\* library.db as Jellyfin left it: the items with the paths numbered in S,
\* each guid the hash of type + path; with shape "star" the first item is
\* the parent and ancestor of all the others, with "chain" every item is the
\* parent and ancestor of the next one
Library(S, shape) ==
    LET first == CHOOSE i \in S : \A j \in S : i <= j
        guid(i) == get_dotnet_MD5(ItemType \o ItemPathList[i])
        rid(i) == Cardinality({j \in S : j <= i})
        above(i) == IF shape = "star" THEN first
                    ELSE CHOOSE j \in S : j < i /\ \A k \in S : k < i => k <= j
    IN  [items |-> {[rid |-> rid(i), guid |-> guid(i), type |-> ItemType,
                     Path |-> ItemPathList[i],
                     ParentId |-> IF shape # "flat" /\ i # first THEN guid(above(i))
                                  ELSE Null] :
                    i \in S},
         anc |-> IF shape # "flat"
                 THEN {[rid |-> rid(i) - 1, ItemId |-> guid(i),
                        AncestorId |-> guid(above(i))] : i \in S \ {first}}
                 ELSE {}]

InitPipe ==
    /\ mode = "pipe"
    /\ ReplaceIdle /\ FieldIdle /\ FilesIdle /\ TargetIdle /\ StampIdle /\ DatesIdle /\ MoveIdle
    /\ pp_map \in PipeMaps
    /\ \E S \in SUBSET (1..Len(ItemPathList)), shape \in {"flat", "star", "chain"} :
          /\ Cardinality(S) \in 1..MaxItems
          /\ pp_db = Library(S, shape)
    /\ pp_db0 = pp_db
    /\ pp_pc = "paths" /\ pp_ids = <<>> /\ pp_dups = <<>> /\ pp_old_ids = <<>>
    /\ pp_acked = FALSE /\ pp_col = 0 /\ pp_rows = {}

\* lines 1449-1454: the path pass, update_db_table with
\* recursive_root_path_replacer on the Path column
PipePathPass ==
    /\ mode = "pipe" /\ pp_pc = "paths"
    /\ \E items \in {{[r EXCEPT !.Path =
                           recursive_root_path_replacer(StrVal(r.Path), pp_map).d.v] :
                       r \in pp_db.items}} :
          /\ pp_db' = [pp_db EXCEPT !.items = items]
          /\ pp_db0' = pp_db'
    /\ pp_pc' = "getids"
    /\ UNCHANGED <<mode, mv_vars, st_vars, dt_vars, tg_vars, rp_vars, fd_vars, fl_vars, pp_map, pp_ids, pp_dups, pp_old_ids,
                   pp_acked, pp_col, pp_rows>>

\* lines 1146-1155: id_replacements_bin after the cursor has returned the
\* first n rows of TypedBaseItems
id_replacements_bin(items, n) ==
    LET rows == [k \in 1..n |-> CHOOSE r \in items : r.rid = k]
        changed(r) == /\ r.Path # <<>> /\ r.Path[1] # "%"
                      /\ get_dotnet_MD5(r.type \o r.Path) # r.guid
        kept == SelectSeq(rows, changed)
    IN  [i \in 1..Len(kept) |->
            [k |-> kept[i].guid, v |-> get_dotnet_MD5(kept[i].type \o kept[i].Path)]]

\* (mutant) every entry maps the new identifier to the old one
id_replacements_str_Turned(bin) ==
    [i \in 1..Len(bin) |-> [k |-> bid2sid(bin[i].v), v |-> bid2sid(bin[i].k)]]

\* lines 1160-1161: id_replacements_str
id_replacements_str(bin) ==
    [i \in 1..Len(bin) |-> [k |-> bid2sid(bin[i].k), v |-> bid2sid(bin[i].v)]]

\* lines 1160-1178: the dict ids that get_ids builds from id_replacements_bin,
\* each derived dict as {f(k): f(v) for k, v in d.items()}
ids(bin) ==
    LET str == id_replacements_str(bin)
        ancestor_str ==
            DictOf([i \in 1..Len(str) |->
                [k |-> convert_ancestor_id(str[i].k), v |-> convert_ancestor_id(str[i].v)]])
    IN  [bin |-> bin,
         str |-> str,
         str_dash |-> DictOf([i \in 1..Len(str) |->
                [k |-> sid2did(str[i].k), v |-> sid2did(str[i].v)]]),
         ancestor_bin |-> DictOf([i \in 1..Len(ancestor_str) |->
                [k |-> sid2bid(ancestor_str[i].k), v |-> sid2bid(ancestor_str[i].v)]]),
         ancestor_str |-> ancestor_str,
         ancestor_str_dash |-> DictOf([i \in 1..Len(ancestor_str) |->
                [k |-> sid2did(ancestor_str[i].k), v |-> sid2did(ancestor_str[i].v)]])]

\* (mutant) a value seen again is listed once
Duplicates_Once(str) ==
    LET again(i) == /\ \E j \in 1..(i - 1) : str[j].v = str[i].v
                    /\ Cardinality({j \in 1..(i - 1) : str[j].v = str[i].v}) = 1
        at == SelectSeq([i \in 1..Len(str) |-> i], again)
    IN  [n \in 1..Len(at) |-> str[at[n]].v]

\* lines 1181-1187: duplicates
Duplicates(str) ==
    LET again(i) == \E j \in 1..(i - 1) : str[j].v = str[i].v
        at == SelectSeq([i \in 1..Len(str) |-> i], again)
    IN  [n \in 1..Len(at) |-> str[at[n]].v]

\* lines 1191-1194: old_ids
OldIds(str, duplicates) ==
    LET dup(e) == e.v \in Range(duplicates)
        hit == SelectSeq(str, dup)
    IN  [n \in 1..Len(hit) |-> sid2bid(hit[n].k)]

\* (mutant) get_ids returns without the prompt
AfterGetIds_NoPrompt(duplicates) == "idpaths"

\* lines 1190, 1218: input() when there are duplicates
AfterGetIds(duplicates) == IF duplicates # <<>> THEN "await_ack" ELSE "idpaths"

\* get_ids when the SELECT over TypedBaseItems has returned n rows
GetIds(n) ==
    /\ mode = "pipe" /\ pp_pc = "getids"
    /\ \E bin \in {id_replacements_bin(pp_db.items, n)} :
        \E dups \in {Duplicates(id_replacements_str(bin))} :
          /\ pp_ids' = bin
          /\ pp_dups' = dups
          /\ pp_old_ids' = OldIds(id_replacements_str(bin), dups)
          /\ pp_pc' = AfterGetIds(dups)
    /\ UNCHANGED <<mode, mv_vars, st_vars, dt_vars, tg_vars, rp_vars, fd_vars, fl_vars, pp_map, pp_db, pp_db0, pp_acked,
                   pp_col, pp_rows>>

\* lines 1139-1220, the SELECT returns every row
PipeGetIds == \E n \in {Cardinality(pp_db.items)} : GetIds(n)

\* lines 1156-1157: sqlite3.DatabaseError while the rows are fetched is
\* logged, and get_ids goes on with the entries it has
PipeGetIdsDbError == \E n \in 0..(Cardinality(pp_db.items) - 1) : GetIds(n)

\* line 1218: Enter at the prompt
PipeAck ==
    /\ mode = "pipe" /\ pp_pc = "await_ack"
    /\ pp_acked' = TRUE
    /\ pp_pc' = "idpaths"
    /\ UNCHANGED <<mode, mv_vars, st_vars, dt_vars, tg_vars, rp_vars, fd_vars, fl_vars, pp_map, pp_db, pp_db0, pp_ids,
                   pp_dups, pp_old_ids, pp_col, pp_rows>>

\* line 1218: CTRL+C or end of input at the prompt, the exception ends
\* program_main
PipeAbort ==
    /\ mode = "pipe" /\ pp_pc = "await_ack"
    /\ pp_pc' = "aborted"
    /\ UNCHANGED <<mode, mv_vars, st_vars, dt_vars, tg_vars, rp_vars, fd_vars, fl_vars, pp_map, pp_db, pp_db0, pp_ids,
                   pp_dups, pp_old_ids, pp_acked, pp_col, pp_rows>>

\* lines 1462-1463: id_replacements_path, the string forms of ids and the
\* slash (the dashed and ancestor forms of id_scanner are not in it here)
id_replacements_path(bin, slash) ==
    [i \in 1..Len(bin) |-> Entry(bid2sid(bin[i].k), bid2sid(bin[i].v))]
        \o <<SlashEntry(slash)>>

\* lines 1476-1481: the id-path pass, update_db_table with
\* recursive_id_path_replacer on the Path column
PipeIdPaths ==
    /\ mode = "pipe" /\ pp_pc = "idpaths"
    /\ \E out \in {[r \in pp_db.items |->
                       recursive_id_path_replacer(StrVal(r.Path),
                           id_replacements_path(pp_ids, Lookup(pp_map, TPS)))]} :
          IF \E r \in pp_db.items : out[r].raised
          THEN pp_pc' = "crashed" /\ UNCHANGED <<pp_db, pp_db0>>
          ELSE /\ pp_db' = [pp_db EXCEPT !.items =
                                {[r EXCEPT !.Path = out[r].d.v] : r \in pp_db.items}]
               /\ pp_db0' = pp_db'
               /\ pp_pc' = "ids"
    /\ UNCHANGED <<mode, mv_vars, st_vars, dt_vars, tg_vars, rp_vars, fd_vars, fl_vars, pp_map, pp_ids, pp_dups, pp_old_ids,
                   pp_acked, pp_col, pp_rows>>

\* todo_list_ids, lines 278-335: the "bin" columns of the two tables, in
\* the order the loops of update_db_table_ids reach them
IdColumns ==
    << <<"anc", "ItemId">>, <<"anc", "AncestorId">>,
       <<"items", "guid">>, <<"items", "ParentId">> >>

\* What a table's uniqueness constraint compares
UniqueKey(table, r) == IF table = "items" THEN <<r.guid>> ELSE <<r.ItemId, r.AncestorId>>

\* UPDATE table SET column = new WHERE column = old
Updated(rows, column, old, new) ==
    {IF r[column] = old THEN [r EXCEPT ![column] = new] ELSE r : r \in rows}

\* The UPDATE raises sqlite3.IntegrityError
Conflict(rows, table, column, old, new) ==
    \E r1, r2 \in Updated(rows, column, old, new) :
        r1.rid # r2.rid /\ UniqueKey(table, r1) = UniqueKey(table, r2)

\* (mutant) after an IntegrityError nothing is deleted
IdStatement_NoDelete(rows, table, column, old, new) ==
    IF Conflict(rows, table, column, old, new) THEN rows
    ELSE Updated(rows, column, old, new)

\* lines 1112-1127: the rows of the table after the UPDATE, or after the
\* DELETE that follows an IntegrityError (the failed UPDATE changes no row)
IdStatement(rows, table, column, old, new) ==
    IF Conflict(rows, table, column, old, new)
    THEN {r \in rows : r[column] # old}
    ELSE Updated(rows, column, old, new)

PipeAtIds == mode = "pipe" /\ pp_pc = "ids"

\* lines 1104-1106: SELECT DISTINCT of the next column
PipeSelect ==
    /\ PipeAtIds /\ pp_rows = {} /\ pp_col < Len(IdColumns)
    /\ pp_col' = pp_col + 1
    /\ pp_rows' = {r[IdColumns[pp_col + 1][2]] : r \in pp_db[IdColumns[pp_col + 1][1]]}
    /\ UNCHANGED <<mode, mv_vars, st_vars, dt_vars, tg_vars, rp_vars, fd_vars, fl_vars, pp_pc, pp_map, pp_db, pp_db0, pp_ids,
                   pp_dups, pp_old_ids, pp_acked>>

\* lines 1109-1128: one old_id of rows, in whatever order the SELECT
\* returned them
PipeIdStatement ==
    /\ PipeAtIds
    /\ \E old_id \in pp_rows :
          /\ pp_rows' = pp_rows \ {old_id}
          /\ IF \E i \in 1..Len(pp_ids) : pp_ids[i].k = old_id
             THEN \E table \in {IdColumns[pp_col][1]}, column \in {IdColumns[pp_col][2]},
                     new_id \in {pp_ids[i].v : i \in {j \in 1..Len(pp_ids) : pp_ids[j].k = old_id}} :
                     pp_db' = [pp_db EXCEPT ![table] =
                                  IdStatement(pp_db[table], table, column, old_id, new_id)]
             ELSE UNCHANGED pp_db
    /\ UNCHANGED <<mode, mv_vars, st_vars, dt_vars, tg_vars, rp_vars, fd_vars, fl_vars, pp_pc, pp_map, pp_db0, pp_ids, pp_dups,
                   pp_old_ids, pp_acked, pp_col>>

\* lines 1132-1135: con.commit(); update_file_dates is next
PipeIdsCommit ==
    /\ PipeAtIds /\ pp_rows = {} /\ pp_col = Len(IdColumns)
    /\ pp_pc' = "dates"
    /\ UNCHANGED <<mode, mv_vars, st_vars, dt_vars, tg_vars, rp_vars, fd_vars, fl_vars, pp_map, pp_db, pp_db0, pp_ids, pp_dups,
                   pp_old_ids, pp_acked, pp_col, pp_rows>>

NextPipe ==
    \/ PipePathPass \/ PipeGetIds \/ PipeGetIdsDbError \/ PipeAck \/ PipeAbort
    \/ PipeIdPaths \/ PipeSelect \/ PipeIdStatement \/ PipeIdsCommit

SpecPipe == InitPipe /\ [][NextPipe]_vars

----------------------------------------------------------------------------
(* Claims about the pipeline *)

\* The rows a table had when the id pass began that it has no more
DeletedRows(table) ==
    {r0 \in pp_db0[table] : \A r \in pp_db[table] : r.rid # r0.rid}

\* C2: when the id pass has run, for every entry G -> G' of the derived
\* mapping and every declared identifier column, each row that held G in
\* the column when the pass began holds G', and no row holds G
C2_EveryReferenceMoved ==
    (mode = "pipe" /\ pp_pc = "dates") =>
        \A i \in 1..Len(pp_ids) : \A tc \in Range(IdColumns) :
            /\ \A r0 \in pp_db0[tc[1]], r \in pp_db[tc[1]] :
                  (r.rid = r0.rid /\ r0[tc[2]] = pp_ids[i].k) => r[tc[2]] = pp_ids[i].v
            /\ \A r \in pp_db[tc[1]] : r[tc[2]] # pp_ids[i].k

\* The entries of ids["bin"] whose new identifier is v
Contributors(v) == {i \in 1..Len(pp_ids) : pp_ids[i].v = v}

\* How often x is in the list
Count(list, x) == Cardinality({n \in 1..Len(list) : list[n] = x})

\* The old identifiers that share their new identifier with another
Colliding == {pp_ids[i].k : i \in {j \in 1..Len(pp_ids) : Cardinality(Contributors(pp_ids[j].v)) >= 2}}

\* C8 as stated: duplicates holds one entry for every new identifier that
\* two or more old identifiers derive to, none for any other, and the
\* warning lists all the old identifiers that contribute
C8_OneEntryPerValue ==
    mode = "pipe" =>
        /\ \A i \in 1..Len(pp_ids) :
              Count(pp_dups, bid2sid(pp_ids[i].v)) =
                  IF Cardinality(Contributors(pp_ids[i].v)) >= 2 THEN 1 ELSE 0
        /\ Range(pp_old_ids) = Colliding

\* C8 (amended): duplicates holds n - 1 entries for a new identifier that n
\* old identifiers derive to, so one entry when two collide and none
\* without a collision, and the warning lists every contributing old
\* identifier once
C8_EntriesPerCollision ==
    mode = "pipe" =>
        /\ \A i \in 1..Len(pp_ids) :
              Count(pp_dups, bid2sid(pp_ids[i].v)) = Cardinality(Contributors(pp_ids[i].v)) - 1
        /\ Range(pp_old_ids) = Colliding
        /\ Len(pp_old_ids) = Cardinality(Colliding)

\* Three old identifiers derive to one new identifier
C8_Witness ==
    /\ mode = "pipe" /\ Len(pp_ids) = 3
    /\ Cardinality(Contributors(pp_ids[1].v)) = 3
    /\ pp_dups = <<bid2sid(pp_ids[1].v), bid2sid(pp_ids[1].v)>>
    /\ Len(pp_old_ids) = 3

\* Setting column from old to new makes a row equal, in what the table's
\* uniqueness constraint compares, to a row that does not hold old
WouldViolate(table, column, old, new) ==
    \E r1, r2 \in pp_db[table] :
        /\ r1[column] = old /\ r2[column] # old
        /\ UniqueKey(table, [r1 EXCEPT ![column] = new]) = UniqueKey(table, r2)

\* C9: a step of the id pass that visits an old identifier whose mapped
\* value would violate the uniqueness constraint removes exactly the rows
\* holding the old identifier, leaves every other row of the database as it
\* was, and leaves the pass running on the same column
C9_ConflictDeletes ==
    [][\A old \in pp_rows, i \in 1..Len(pp_ids) :
          LET table == IdColumns[pp_col][1]
              column == IdColumns[pp_col][2]
              other == IF table = "items" THEN "anc" ELSE "items"
          IN  (/\ PipeAtIds /\ pp_rows' = pp_rows \ {old} /\ pp_ids[i].k = old
               /\ WouldViolate(table, column, old, pp_ids[i].v))
              => /\ pp_db'[table] = {r \in pp_db[table] : r[column] # old}
                 /\ pp_db'[other] = pp_db[other]
                 /\ pp_pc' = "ids" /\ pp_col' = pp_col]_vars

\* A row of AncestorIds with an old ItemId is gone, the row with the mapped
\* ItemId and the same AncestorId is there, and the pass is still running
C9_Witness ==
    /\ PipeAtIds
    /\ \E r0 \in DeletedRows("anc"), i \in 1..Len(pp_ids), r \in pp_db.anc :
          /\ pp_ids[i].k = r0.ItemId
          /\ r.ItemId = pp_ids[i].v /\ r.AncestorId = r0.AncestorId

\* C10: while get_ids has found duplicates and the operator has not pressed
\* Enter, the pipeline is at the prompt or has ended there, and no row has
\* been deleted
C10_NoDeletionBeforeAck ==
    (mode = "pipe" /\ pp_dups # <<>> /\ ~pp_acked) =>
        /\ pp_pc \in {"await_ack", "aborted"}
        /\ DeletedRows("items") = {} /\ DeletedRows("anc") = {}

\* After the acknowledgment the id pass has deleted an item
C10_Witness ==
    /\ mode = "pipe" /\ pp_dups # <<>> /\ pp_acked
    /\ DeletedRows("items") # {}

----------------------------------------------------------------------------
(* SpecTarget: get_target for one file of a job of the path pass, then     *)
(* process_file on what it returned.  The file system is the set of files  *)
(* and the set of directories that exist.                                  *)

\* Longest source path below source_root, in segments
MaxDepth == 2

Auto == <<"a","u","t","o">>

AutoExisting == Auto \o <<"-","e","x","i","s","t","i","n","g">>

\* p and every directory above it
Ancestors(p) ==
    {[root |-> p.root, segs |-> SubSeq(p.segs, 1, k)] : k \in 0..Len(p.segs)}

\* the "auto" branch: [target, raised]
AutoTarget(source, replacements, env) ==
    IF ~is_relative_to(source, env.source_root)
    THEN [target |-> None, raised |-> TRUE]
    ELSE The({
        IF r1.raised THEN [target |-> None, raised |-> TRUE]
        ELSE The({
            IF r2.raised THEN [target |-> None, raised |-> TRUE]
            ELSE The({
                [target |-> IF t.root = <<>>
                            THEN TrueDiv(PathOf(env.target_root),
                                         IF is_relative_to(t, <<"/">>)
                                         THEN relative_to(t, <<"/">>) ELSE t)
                            ELSE t,
                 raised |-> FALSE] : t \in {PathOf(r2.d.v)}})
            : r2 \in {recursive_root_path_replacer(r1.d, env.fs_path_replacements)}})
        : r1 \in {recursive_root_path_replacer(
                      PathVal(as_posix(TrueDiv(PathOf(env.original_root),
                                               relative_to(source, env.source_root)))),
                      replacements)}})

\* (mutant) "auto-existing" copies like "auto"
SkipCopy_Never(target) == FALSE

\* skip_copy
SkipCopy(target) == PathName(target) = AutoExisting

\* get_target: [target, mkdir, copied, raised]; fs is the file system, usure
\* what the operator answers when asked
get_target(source, target, replacements, query, env, fs, usure) ==
    The({The({
        IF a.raised THEN [target |-> None, mkdir |-> FALSE, copied |-> FALSE,
                          raised |-> TRUE]
        ELSE IF source = a.target
        THEN [target |-> IF user_wants_inplace_warning /\ query /\ usure = "n"
                         THEN None ELSE a.target,
              mkdir |-> FALSE, copied |-> FALSE, raised |-> FALSE]
        ELSE IF ~(isauto /\ SkipCopy(target))
        THEN [target |-> a.target,
              mkdir |-> PathParent(a.target) \notin fs.dirs \cup fs.files,
              copied |-> source \in fs.files,
              raised |-> source \notin fs.files]
        ELSE [target |-> a.target, mkdir |-> FALSE, copied |-> FALSE,
              raised |-> FALSE]
        : a \in {IF isauto THEN AutoTarget(source, replacements, env)
                 ELSE [target |-> target, raised |-> FALSE]}})
      : isauto \in {Len(PathParts(target)) = 1
                    /\ IsPrefix(Auto, PathName(target))}})

\* (mutant) the identifier mapping replaces the path mapping
Merged_Replaced(path_replacements, id_replacements) == id_replacements

\* line 1481: {**path_replacements, **id_replacements_path}
Merged(path_replacements, id_replacements) ==
    [i \in 1..Len(DictOf(path_replacements \o id_replacements)) |->
        [k |-> DictOf(path_replacements \o id_replacements)[i].k,
         v |-> DictOf(path_replacements \o id_replacements)[i].v,
         str |-> TRUE]]

\* identifier mappings whose keys are names that occur in the sources
TargetIdMaps ==
    {<<Entry(<<"d">>, <<"f">>), SlashEntry(<<"/">>)>>,
     <<Entry(<<"f">>, <<"d">>), Entry(<<"d">>, <<"e">>), SlashEntry(<<"/">>)>>}

\* One file of one job.  Sources: a root and up to MaxDepth segments below
\* it.  path_replacements: the install root "o" moved to an absolute path, to
\* a relative path, onto the source root, or not mentioned; a job of the
\* id-path pass ("auto-existing") may get it merged with an identifier mapping.
\* fs_path_replacements: the linux root "/n" mapped to "/", or nothing mapped.
InitTarget ==
    LET roots == {<<".">>, <<"/","s">>}
        sources == {TrueDiv(PathOf(r), [root |-> <<>>, segs |-> s]) :
                       r \in roots,
                       s \in UNION {[1..k -> {<<"d">>, <<"f">>}] : k \in 1..MaxDepth}}
        maps == {<<SlashEntry(<<"/">>), Entry(<<"o">>, v)>> :
                    v \in {<<"/","n">>, <<"n">>, <<"/","s">>}}
                \cup {<<SlashEntry(<<"/">>), Entry(<<"/","x">>, <<"/","n">>)>>}
        fsmaps == {<<[k |-> <<"l","o","g">>, v |-> <<>>, str |-> FALSE],
                     SlashEntry(<<"/">>)>> \o m :
                      m \in {<<Entry(<<"/","n">>, <<"/">>)>>, <<>>}}
    IN  /\ mode = "target"
        /\ ReplaceIdle /\ FieldIdle /\ FilesIdle /\ PipeIdle /\ StampIdle /\ DatesIdle /\ MoveIdle
        /\ tg_env \in [original_root : {<<"o">>},
                       source_root : roots,
                       target_root : {<<"/","t">>},
                       path_replacements : maps,
                       fs_path_replacements : fsmaps]
        /\ \E source \in sources :
              /\ tg_job \in [source : {source},
                             target : {PathOf(Auto), PathOf(AutoExisting), source,
                                       PathOf(<<"/","t","/","e">>)},
                             replacements : {tg_env.path_replacements}
                                 \cup {Merged(tg_env.path_replacements, im) :
                                          im \in TargetIdMaps},
                             query : BOOLEAN,
                             copy_only : BOOLEAN]
              /\ tg_job.replacements # tg_env.path_replacements
                    => tg_job.target = PathOf(AutoExisting)
              /\ \E present \in BOOLEAN :
                    tg_fs = [files |-> IF present THEN {source} ELSE {},
                             dirs |-> Ancestors(PathParent(source))]
        /\ tg_pc = "resolve"
        /\ tg_ret = None
        /\ tg_copied = {}
        /\ tg_rewritten = {}

\* get_target returns
GetTarget ==
    /\ mode = "target" /\ tg_pc = "resolve"
    /\ \E usure \in {"y", "n", "a"} :
       \E r \in {get_target(tg_job.source, tg_job.target, tg_job.replacements,
                            tg_job.query, tg_env, tg_fs, usure)} :
          /\ ~r.raised
          /\ tg_ret' = r.target
          /\ tg_fs' = [files |-> IF r.copied THEN tg_fs.files \cup {r.target}
                                 ELSE tg_fs.files,
                       dirs |-> IF r.mkdir
                                THEN tg_fs.dirs \cup Ancestors(PathParent(r.target))
                                ELSE tg_fs.dirs]
          /\ tg_copied' = IF r.copied THEN {<<tg_job.source, r.target>>} ELSE {}
    /\ tg_pc' = "process"
    /\ UNCHANGED <<mode, mv_vars, st_vars, dt_vars, rp_vars, fd_vars, fl_vars, pp_vars, tg_job, tg_env, tg_rewritten>>

\* get_target raises: the source is not below source_root, a replacer
\* raised, or copy did not find the source
GetTargetRaises ==
    /\ mode = "target" /\ tg_pc = "resolve"
    /\ \E r \in {get_target(tg_job.source, tg_job.target, tg_job.replacements,
                            tg_job.query, tg_env, tg_fs, "y")} :
          /\ r.raised
          /\ tg_fs' = [tg_fs EXCEPT !.dirs =
                          IF r.mkdir THEN @ \cup Ancestors(PathParent(r.target))
                          ELSE @]
    /\ tg_pc' = "crashed"
    /\ UNCHANGED <<mode, mv_vars, st_vars, dt_vars, rp_vars, fd_vars, fl_vars, pp_vars, tg_job, tg_env, tg_ret,
                   tg_copied, tg_rewritten>>

\* process_file(source, target, ...): nothing without a target and nothing
\* for a directory; otherwise the file at target is opened and rewritten
ProcessFile ==
    /\ mode = "target" /\ tg_pc = "process"
    /\ \E skip \in {tg_ret = None \/ tg_ret \in tg_fs.dirs \/ tg_job.copy_only} :
          /\ tg_rewritten' = IF skip \/ tg_ret \notin tg_fs.files
                             THEN tg_rewritten
                             ELSE tg_rewritten \cup {tg_ret}
          /\ tg_pc' = IF skip \/ tg_ret \in tg_fs.files THEN "done" ELSE "crashed"
    /\ UNCHANGED <<mode, mv_vars, st_vars, dt_vars, rp_vars, fd_vars, fl_vars, pp_vars, tg_job, tg_env, tg_fs,
                   tg_ret, tg_copied>>

NextTarget == GetTarget \/ GetTargetRaises \/ ProcessFile

SpecTarget == InitTarget /\ [][NextTarget]_vars

----------------------------------------------------------------------------
(* Claims about get_target *)

IsAuto(target) == Len(PathParts(target)) = 1 /\ IsPrefix(Auto, PathName(target))

\* the target path get_target resolved for the job, before the in-place test
Resolved ==
    IF IsAuto(tg_job.target)
    THEN AutoTarget(tg_job.source, tg_job.replacements, tg_env).target
    ELSE tg_job.target

TargetReturned == mode = "target" /\ tg_pc \in {"process", "done"}

\* C11: in the default configuration, when the resolved target is the source
\* path get_target returns None and process_file rewrites nothing
C11_InPlaceSkipped ==
    (TargetReturned /\ Resolved = tg_job.source) =>
        /\ tg_ret = None
        /\ tg_pc = "done" => tg_rewritten = {}

\* C12: with target "auto" or "auto-existing" the path get_target returns
\* lies below target_root
C12_TargetUnderRoot ==
    (TargetReturned /\ IsAuto(tg_job.target)) =>
        is_relative_to(tg_ret, tg_env.target_root)

\* C13: a call of get_target with target "auto-existing" copies nothing and
\* leaves every file and directory as it was; a call that returns with
\* target "auto" or an explicit target, the target being another path than
\* the source, has made the target's parent directories and copied the
\* source there, and returns that path
C13_CopyPolicy ==
    [][(mode = "target" /\ tg_pc = "resolve") =>
          /\ tg_job.target = PathOf(AutoExisting) =>
                tg_fs' = tg_fs /\ tg_copied' = {}
          /\ (/\ tg_pc' = "process"
              /\ tg_job.target # PathOf(AutoExisting)
              /\ Resolved # tg_job.source) =>
                /\ tg_ret' = Resolved
                /\ tg_copied' = {<<tg_job.source, Resolved>>}
                /\ tg_fs'.files = tg_fs.files \cup {Resolved}
                /\ Ancestors(PathParent(Resolved)) \subseteq tg_fs'.dirs]_vars

\* get_target has returned a target of an "auto-existing" job that is not
\* the source and does not exist, and nothing was copied
C13_Witness ==
    /\ TargetReturned /\ tg_job.target = PathOf(AutoExisting)
    /\ tg_ret # None /\ tg_ret # tg_job.source
    /\ tg_ret \notin tg_fs.files /\ tg_copied = {}
    /\ tg_job.source \in tg_fs.files

\* C29: the target get_target resolves for a job of the id-path pass,
\* target "auto-existing" and the path mapping merged with the identifier
\* mapping, is the target it resolves for the same source with target "auto"
\* and the path mapping alone
C29_SameTarget ==
    (TargetReturned /\ tg_job.target = PathOf(AutoExisting)) =>
        \E first \in {get_target(tg_job.source, PathOf(Auto),
                                 tg_env.path_replacements, tg_job.query,
                                 tg_env, tg_fs, "y")} :
            tg_ret = first.target

\* get_target has returned for an "auto-existing" job whose mapping has an
\* identifier that is a name in the source path, and the target is another
\* path than the source
C29_Witness ==
    /\ TargetReturned /\ tg_job.target = PathOf(AutoExisting)
    /\ tg_job.replacements # tg_env.path_replacements
    /\ HasKey(tg_job.replacements, <<"d">>)
    /\ \E j \in 1..Len(tg_job.source.segs) : tg_job.source.segs[j] = <<"d">>
    /\ tg_ret # None /\ tg_ret # tg_job.source
    /\ HasKey(tg_env.path_replacements, tg_env.original_root)

----------------------------------------------------------------------------
(* Claims about get_ids *)

\* get_ids has returned or waits at its prompt; library.db is as it read it
Derived == mode = "pipe" /\ pp_pc \in {"await_ack", "idpaths"}

\* the rows of TypedBaseItems that the derivation has to give an entry for
Moved ==
    {r \in pp_db.items : /\ r.Path # <<>> /\ r.Path[1] # "%"
                         /\ get_dotnet_MD5(r.type \o r.Path) # r.guid}

\* C18: the binary mapping holds old -> new for exactly the rows with a path
\* that is not empty and no placeholder and whose hash of type + path is not
\* their guid, and it is a function of the rows
C18_ExactEntries ==
    Derived =>
        /\ Range(pp_ids) = {[k |-> r.guid, v |-> get_dotnet_MD5(r.type \o r.Path)] :
                               r \in Moved}
        /\ Len(pp_ids) = Cardinality(Moved)

\* the form of the binary identifier b that the mapping `kind` is keyed by
ReprOf(kind, b) ==
    CASE kind = "str" -> bid2sid(b)
      [] kind = "str_dash" -> sid2did(bid2sid(b))
      [] kind = "ancestor_str" -> convert_ancestor_id(bid2sid(b))
      [] kind = "ancestor_bin" -> sid2bid(convert_ancestor_id(bid2sid(b)))
      [] kind = "ancestor_str_dash" -> sid2did(convert_ancestor_id(bid2sid(b)))

\* the entries repr(old) -> repr(new) of the binary entries
ReprEntries(kind) ==
    {[k |-> ReprOf(kind, e.k), v |-> ReprOf(kind, e.v)] : e \in Range(pp_ids)}

C21_DbErrorAborts ==
    [][(mode = "pipe" /\ pp_pc = "getids" /\ Len(pp_ids') < Cardinality(Moved))
          => pp_pc' \notin {"await_ack", "idpaths"}]_vars

----------------------------------------------------------------------------
(* SpecStamp: get_datestr_from_python_time_ns and jf_date_str_to_python_ns *)
(* on one nanosecond count. TLC's integers have 32 bits, so the counts are *)
(* those of the first two seconds after the epoch.                         *)

Digits == <<"0","1","2","3","4","5","6","7","8","9">>

\* str(n) of an int n >= 0
RECURSIVE DecStr(_)
DecStr(n) == IF n < 10 THEN <<Digits[n + 1]>>
             ELSE DecStr(n \div 10) \o <<Digits[(n % 10) + 1]>>

\* int(s) of a str of decimal digits; -1 stands for ValueError
DecInt(s) ==
    IF s = <<>> \/ \E i \in 1..Len(s) : s[i] \notin Range(Digits) THEN -1
    ELSE SumSeq([i \in 1..Len(s) |->
                    (CHOOSE d \in 0..9 : Digits[d + 1] = s[i]) * 10^(Len(s) - i)])

\* s.rstrip(chars)
rstrip(s, chars) ==
    LET keep == {k \in 0..Len(s) : \A i \in (k + 1)..Len(s) : s[i] \in chars}
    IN  Take(s, CHOOSE k \in keep : \A j \in keep : k <= j)

\* string.ascii_letters
ascii_letters ==
    {"a","b","c","d","e","f","g","h","i","j","k","l","m","n","o","p","q","r","s",
     "t","u","v","w","x","y","z","A","B","C","D","E","F","G","H","I","J","K","L",
     "M","N","O","P","Q","R","S","T","U","V","W","X","Y","Z"}

\* datetime.utcfromtimestamp(time_s).isoformat(sep=" ", timespec="seconds")
\* for the seconds of the first minute after the epoch, and for the second
\* before it, which stands for every date before 1970
isoformat(time_s) ==
    IF time_s < 0
    THEN <<"1","9","6","9","-","1","2","-","3","1"," ","2","3",":","5","9",":","5","9">>
    ELSE <<"1","9","7","0","-","0","1","-","0","1"," ","0","0",":","0","0",":">>
            \o <<Digits[(time_s \div 10) + 1], Digits[(time_s % 10) + 1]>>

\* int(datetime.datetime.fromisoformat(s).timestamp()) with [raised] for
\* ValueError, on the dates isoformat writes; a trailing "Z" is read as UTC
fromisoformat(s) ==
    IF s = isoformat(-1) \o <<"Z">> THEN [t |-> -1, raised |-> FALSE]
    ELSE IF /\ Len(s) = 20 /\ s[20] = "Z"
            /\ SubSeq(s, 1, 17) = SubSeq(isoformat(0), 1, 17)
            /\ DecInt(SubSeq(s, 18, 19)) \in 0..59
    THEN [t |-> DecInt(SubSeq(s, 18, 19)), raised |-> FALSE]
    ELSE [t |-> 0, raised |-> TRUE]

\* (mutant) the sub-second digits are not padded to seven places
get_datestr_NoPad(time_ns) ==
    isoformat(time_ns \div 1000000000) \o <<".">>
        \o rstrip(DecStr((time_ns \div 100) % 10000000), {"0"}) \o <<"Z">>

\* lines 1258-1267
get_datestr_from_python_time_ns(time_ns) ==
    LET time_s == time_ns \div 1000000000
        time_frac_s_100ns == (time_ns \div 100) % 10000000
        rjust(s, n) == [i \in 1..(n - Len(s)) |-> "0"] \o s
    IN  isoformat(time_s) \o <<".">>
            \o rstrip(rjust(DecStr(time_frac_s_100ns), 7), {"0"}) \o <<"Z">>

\* lines 1227-1250: [t] is the value returned, [raised] an exception
jf_date_str_to_python_ns(orig_s) ==
    LET dots == {i \in 1..Len(orig_s) : orig_s[i] = "."}
        cut == CHOOSE i \in dots : \A j \in dots : j <= i
        s == IF dots = {} THEN orig_s ELSE SubSeq(orig_s, 1, cut - 1)
        subseconds == IF dots = {} THEN <<"0">> ELSE Drop(orig_s, cut)
        ljust(x, n) == x \o [i \in 1..(n - Len(x)) |-> "0"]
        ns == DecInt(ljust(rstrip(SplitOn(subseconds, "+")[1], ascii_letters), 9))
        sz == IF s # <<>> /\ s[Len(s)] = "Z" THEN s ELSE s \o <<"Z">>
        dt == fromisoformat(sz)
    IN  IF ns < 0 \/ dt.raised THEN [t |-> 0, raised |-> TRUE, called |-> TRUE]
        ELSE [t |-> dt.t * 1000000000 + ns, raised |-> FALSE, called |-> TRUE]

\* Leading digit of the sub-second part of the counts in SpecStamp
MaxDigit == 2

InitStamp ==
    /\ mode = "stamp"
    /\ ReplaceIdle /\ FieldIdle /\ FilesIdle /\ PipeIdle /\ TargetIdle /\ DatesIdle /\ MoveIdle
    /\ st_ns \in {s * 1000000000 + d * 10^e + x :
                     s \in 0..1, d \in 0..MaxDigit \cup {9}, e \in 0..8, x \in {0, 1, 99}}
    /\ st_str = <<>> /\ st_back = NoStamp

StampEncode ==
    /\ mode = "stamp" /\ st_str = <<>>
    /\ st_str' = get_datestr_from_python_time_ns(st_ns)
    /\ UNCHANGED <<mode, mv_vars, rp_vars, fd_vars, fl_vars, pp_vars, tg_vars, dt_vars, st_ns, st_back>>

StampDecode ==
    /\ mode = "stamp" /\ st_str # <<>> /\ ~st_back.called
    /\ st_back' = jf_date_str_to_python_ns(st_str)
    /\ UNCHANGED <<mode, mv_vars, rp_vars, fd_vars, fl_vars, pp_vars, tg_vars, dt_vars, st_ns, st_str>>

NextStamp == StampEncode \/ StampDecode

SpecStamp == InitStamp /\ [][NextStamp]_vars

----------------------------------------------------------------------------
(* SpecDates: update_file_dates over the rows of TypedBaseItems *)

\* lines 1289-1298 and 1361-1371, "Code taken from get_target": the file a
\* row's Path stands for, as this script sees it
DateTarget(path, env) ==
    LET t == PathOf(recursive_root_path_replacer(StrVal(path),
                                                 env.fs_path_replacements).d.v)
    IN  IF t.root = <<>> THEN TrueDiv(PathOf(env.target_root), t) ELSE t

\* os.stat(target) of a file that exists
Stat(target, fs) == CHOOSE f \in fs : f.path = target

\* lines 1283-1321: one row in a worker; [none] stands for return None, and
\* Null in a date for None
update_file_date_proc(row, env, fs) ==
    LET skip == [none |-> TRUE, rowid |-> row.rowid, date_created |-> Null,
                 date_modified |-> Null]
        target == DateTarget(row.Path, env)
        date_created_ns == jf_date_str_to_python_ns(row.DateCreated).t
        date_modified_ns == jf_date_str_to_python_ns(row.DateModified).t
    IN  IF row.Path = <<>> THEN skip
        ELSE IF \A f \in fs : f.path # target THEN skip
        ELSE IF date_created_ns >= 0 /\ date_modified_ns >= 0 THEN skip
        ELSE [none |-> FALSE, rowid |-> row.rowid,
              date_created |->
                  IF date_created_ns < 0
                  THEN get_datestr_from_python_time_ns(Stat(target, fs).st_ctime_ns)
                  ELSE Null,
              date_modified |->
                  IF date_modified_ns < 0
                  THEN get_datestr_from_python_time_ns(Stat(target, fs).st_mtime_ns)
                  ELSE Null]

\* lines 1357-1407: one iteration of the loop of the sequential branch; the
\* row as its UPDATEs leave it
SequentialRow(row, env, fs) ==
    LET target == DateTarget(row.Path, env)
        date_created_ns == jf_date_str_to_python_ns(row.DateCreated).t
        date_modified_ns == jf_date_str_to_python_ns(row.DateModified).t
    IN  IF row.Path = <<>> THEN row
        ELSE IF \A f \in fs : f.path # target THEN row
        ELSE IF date_created_ns >= 0 /\ date_modified_ns >= 0 THEN row
        ELSE [row EXCEPT
                !.DateCreated =
                    IF date_created_ns < 0
                    THEN get_datestr_from_python_time_ns(Stat(target, fs).st_ctime_ns)
                    ELSE @,
                !.DateModified =
                    IF date_modified_ns < 0
                    THEN get_datestr_from_python_time_ns(Stat(target, fs).st_mtime_ns)
                    ELSE @]

\* lines 1349-1353: the two UPDATEs executed for one entry of outs
WriteOut(row, out) ==
    [row EXCEPT !.DateCreated = out.date_created,
                !.DateModified = out.date_modified]

\* The date Jellyfin stores for "not set" (0001-01-01): a date before 1970
DateUnset == isoformat(-1) \o <<"Z">>

\* TypedBaseItems: n rows, fewer than a chunk or one more than a chunk, the
\* first of one kind and the others of another.
\* A Path is of a file that exists ("/n/a", seen by this script as "/a"),
\* of a file that is missing, or empty; a date is unset or set.
InitDates ==
    LET kinds == [Path : {<<"/","n","/","a">>, <<"/","n","/","b">>, <<>>},
                  DateCreated : {DateUnset, get_datestr_from_python_time_ns(500000000)},
                  DateModified : {DateUnset, get_datestr_from_python_time_ns(700)}]
    IN  /\ mode = "dates"
        /\ ReplaceIdle /\ FieldIdle /\ FilesIdle /\ PipeIdle /\ TargetIdle /\ StampIdle /\ MoveIdle
        /\ \E n \in {1, 2, CHUNK_SIZE + 1}, a \in kinds, b \in kinds :
              dt_table0 = [i \in 1..n |->
                              [rowid |-> i,
                               Path |-> IF i = 1 THEN a.Path ELSE b.Path,
                               DateCreated |-> IF i = 1 THEN a.DateCreated
                                               ELSE b.DateCreated,
                               DateModified |-> IF i = 1 THEN a.DateModified
                                                ELSE b.DateModified]]
        /\ dt_table = dt_table0
        /\ dt_fs = {[path |-> PathOf(<<"/","a">>), st_ctime_ns |-> 1234567899,
                     st_mtime_ns |-> 1000000000]}
        /\ dt_env = [fs_path_replacements |->
                        <<SlashEntry(<<"/">>), Entry(<<"/","n">>, <<"/">>)>>,
                     target_root |-> <<"/","t">>]
        /\ dt_parallel \in BOOLEAN
        /\ dt_outs = <<>> /\ dt_pc = "start"

\* lines 1355-1410: the sequential branch and con.commit()
DatesSequential ==
    /\ mode = "dates" /\ dt_pc = "start" /\ ~dt_parallel
    /\ dt_table' = [i \in 1..Len(dt_table) |-> SequentialRow(dt_table[i], dt_env, dt_fs)]
    /\ dt_pc' = "done"
    /\ UNCHANGED <<mode, mv_vars, rp_vars, fd_vars, fl_vars, pp_vars, tg_vars, st_vars,
                   dt_table0, dt_fs, dt_env, dt_parallel, dt_outs>>

\* lines 1337-1348: the rows are partitioned, the pool maps
\* update_file_date_proc over every chunk, and the Nones are filtered out
DatesPoolMap ==
    /\ mode = "dates" /\ dt_pc = "start" /\ dt_parallel
    /\ LET proc(row) == update_file_date_proc(row, dt_env, dt_fs)
           rows == JoinWith(partition(dt_table, CHUNK_SIZE), <<>>)
           kept(out) == ~out.none
       IN  dt_outs' = SelectSeq([i \in 1..Len(rows) |-> proc(rows[i])], kept)
    /\ dt_pc' = "write"
    /\ UNCHANGED <<mode, mv_vars, rp_vars, fd_vars, fl_vars, pp_vars, tg_vars, st_vars,
                   dt_table0, dt_table, dt_fs, dt_env, dt_parallel>>

\* lines 1349-1353 and 1409: the UPDATEs for every entry of outs, and
\* con.commit()
DatesPoolWrite ==
    /\ mode = "dates" /\ dt_pc = "write"
    /\ dt_table' = [i \in 1..Len(dt_table) |->
                       IF \E k \in 1..Len(dt_outs) : dt_outs[k].rowid = i
                       THEN WriteOut(dt_table[i],
                                dt_outs[CHOOSE k \in 1..Len(dt_outs) : dt_outs[k].rowid = i])
                       ELSE dt_table[i]]
    /\ dt_pc' = "done"
    /\ UNCHANGED <<mode, mv_vars, rp_vars, fd_vars, fl_vars, pp_vars, tg_vars, st_vars,
                   dt_table0, dt_fs, dt_env, dt_parallel, dt_outs>>

NextDates == DatesSequential \/ DatesPoolMap \/ DatesPoolWrite

SpecDates == InitDates /\ [][NextDates]_vars

----------------------------------------------------------------------------
(* Claims about the date strings *)

\* C22: a nanosecond count n >= 0 written as a date string and read back
\* gives n - (n mod 100); reading never raises and never gives a negative
\* count, also when the sub-second digits are all stripped
C22_StampRoundTrip ==
    (mode = "stamp" /\ st_back.called) =>
        /\ ~st_back.raised
        /\ st_back.t = st_ns - (st_ns % 100)
        /\ st_back.t >= 0

\* A whole second: the date string ends in ".Z" and is read back
C22_Witness ==
    /\ mode = "stamp" /\ st_back.called
    /\ st_ns = 1000000000
    /\ st_str[Len(st_str) - 1] = "." /\ st_back.t = st_ns

(* Claims about update_file_dates *)

DatesDone == mode = "dates" /\ dt_pc = "done"

\* the row's file exists, as update_file_dates resolves it
FileExists(row) ==
    row.Path # <<>> /\ \E f \in dt_fs : f.path = DateTarget(row.Path, dt_env)

\* the stored date is a date that is not set
IsUnset(date) == jf_date_str_to_python_ns(date).t < 0

\* what the claims C23 and C28 expect in row i when update_file_dates is done
Reconciled(i) ==
    LET row == dt_table0[i]
        st == Stat(DateTarget(row.Path, dt_env), dt_fs)
    IN  IF ~FileExists(row) THEN row
        ELSE [row EXCEPT
                !.DateCreated = IF IsUnset(@)
                                THEN get_datestr_from_python_time_ns(st.st_ctime_ns)
                                ELSE @,
                !.DateModified = IF IsUnset(@)
                                 THEN get_datestr_from_python_time_ns(st.st_mtime_ns)
                                 ELSE @]

\* C23: update_file_dates as program_main calls it (parallel=True): in every
\* row whose file exists an unset date is replaced by the file's and a date
\* that is set is kept; the rows of missing files and the rows with both
\* dates set are as they were
C23_DatesReconciled ==
    (DatesDone /\ dt_parallel) =>
        \A i \in 1..Len(dt_table0) : dt_table[i] = Reconciled(i)

\* C28: with parallel=True and with parallel=False update_file_dates leaves
\* the same table: the one the sequential loop computes row by row
C28_ParallelAsSequential ==
    DatesDone =>
        dt_table = [i \in 1..Len(dt_table0) |->
                       SequentialRow(dt_table0[i], dt_env, dt_fs)]

(* Claims about the configured mapping *)

\* entry j of rp_map is a source prefix nested under the source prefix i
NestedUnder(j, i) ==
    /\ i # j /\ rp_map[i].k # TPS /\ rp_map[j].k # TPS
    /\ is_relative_to(PathOf(rp_map[j].k), rp_map[i].k)

\* C24: in the mapping get_path_replacements builds, a source prefix that is
\* nested under another one stands before it, and the replacer maps a path
\* under the nested prefix to the nested prefix's target
C24_NestedFirst ==
    (mode = "replace" /\ rp_op = "config") =>
        /\ \A i, j \in 1..Len(rp_map) : NestedUnder(j, i) => j < i
        /\ rp_out.modified >= 0 =>
              \A j \in 1..Len(rp_map) :
                  (/\ rp_map[j].k # TPS
                   /\ is_relative_to(PathOf(rp_in.v), rp_map[j].k)
                   /\ \A i \in 1..Len(rp_map) :
                         NestedUnder(i, j) => ~is_relative_to(PathOf(rp_in.v), rp_map[i].k))
                  => rp_out.d.v = as_posix(RTrueDiv(rp_map[j].v,
                                             relative_to(PathOf(rp_in.v), rp_map[j].k)))

(* Claims about update_db_table_ids *)

\* ids[id_type].get(x, x)
MappedId(x) ==
    IF \E i \in 1..Len(pp_ids) : pp_ids[i].k = x
    THEN pp_ids[CHOOSE i \in 1..Len(pp_ids) : pp_ids[i].k = x].v
    ELSE x

\* the columns whose loop over old_id has run to its end
ColumnsDone ==
    {c \in 1..Len(IdColumns) :
        mode = "pipe" /\ pp_pc \in {"ids", "dates"}
        /\ (c < pp_col \/ (c = pp_col /\ pp_rows = {}))}

\* C25: when a column has been processed, every row that is still there
\* holds the mapped value of what it held when the pass began, or that same
\* value when it was no key, whatever the order of the old identifiers
C25_SimultaneousSubstitution ==
    \A c \in ColumnsDone :
        \A r0 \in pp_db0[IdColumns[c][1]], r \in pp_db[IdColumns[c][1]] :
            r.rid = r0.rid => r[IdColumns[c][2]] = MappedId(r0[IdColumns[c][2]])

\* C26: a row the id pass deleted held, when the pass began, an old
\* identifier that shares its new identifier with another old identifier,
\* and the operator had acknowledged the report
C26_DeletedOnlyCollisions ==
    mode = "pipe" =>
        \A tc \in Range(IdColumns) : \A r0 \in DeletedRows(tc[1]) :
            /\ pp_acked
            /\ \E tc2 \in Range(IdColumns) : tc2[1] = tc[1] /\ r0[tc2[2]] \in Colliding

----------------------------------------------------------------------------
(* SpecMove: process_files runs one wildcard job of todo_list_id_paths;    *)
(* process_file moves every file whose path holds an old identifier        *)

\* id_replacements_path: one identifier renamed; a new identifier that is
\* another item's old one; two old identifiers with the same new one
MoveMaps ==
    {<<Entry(<<"8","3","a">>, <<"f","1","b">>), SlashEntry(<<"/">>)>>,
     <<Entry(<<"8","3","a">>, <<"f","1","b">>),
       Entry(<<"f","1","b">>, <<"8","3","c">>), SlashEntry(<<"/">>)>>,
     <<Entry(<<"8","3","a">>, <<"f","1","b">>),
       Entry(<<"8","3","c">>, <<"f","1","b">>), SlashEntry(<<"/">>)>>}

\* the files the wildcard matches, as get_target resolved them below target_root
MoveFiles ==
    {<<"/","t","/","8","3","/","8","3","a","/","p">>,
     <<"/","t","/","8","3","/","8","3","a","/","q">>,
     <<"/","t","/","8","3","/","8","3","c","/","p">>,
     <<"/","t","/","f","1","/","f","1","b","/","p">>,
     <<"/","t","/","x","/","p">>}

InitMove ==
    /\ mode = "move"
    /\ ReplaceIdle /\ FieldIdle /\ FilesIdle /\ PipeIdle /\ TargetIdle /\ StampIdle
    /\ DatesIdle
    /\ mv_map \in MoveMaps
    /\ \E F \in SUBSET MoveFiles, G \in SUBSET MoveFiles :
          /\ F # {} /\ G \subseteq F /\ Cardinality(F \ G) <= 1
          /\ mv_left = F
          /\ mv_fs0 = {[path |-> f, data |-> f] : f \in G}
    /\ mv_fs = mv_fs0
    /\ mv_moved = {}
    /\ mv_pc = "job"

\* the file at a path of the tree
FileAt(fs, path) == CHOOSE x \in fs : x.path = path

\* source.replace(target): the file is renamed, and replaces what was there
Rename(fs, source, target) ==
    {x \in fs : x.path \notin {source, target}}
        \cup {[path |-> target, data |-> FileAt(fs, source).data]}

\* lines 899-900: target, modified, ignored = recursive_id_path_replacer(source, ...)
MoveTo(source, to_replace) == recursive_id_path_replacer(PathVal(source), to_replace)

\* process_file for one file of the job, lines 895-909: the sequential loop
\* and the workers of the pool call it for the files in any order
MoveFile ==
    /\ mode = "move" /\ mv_pc = "job"
    /\ \E source \in mv_left :
       \E r \in {MoveTo(source, mv_map)} :
          /\ ~r.raised
          /\ mv_left' = mv_left \ {source}
          /\ IF r.modified > 0 /\ \E x \in mv_fs : x.path = source
             THEN /\ mv_fs' = Rename(mv_fs, source, r.d.v)
                  /\ mv_moved' = mv_moved \cup {<<FileAt(mv_fs, source).data, r.d.v>>}
             ELSE UNCHANGED <<mv_fs, mv_moved>>
    /\ UNCHANGED <<mode, rp_vars, fd_vars, fl_vars, pp_vars, tg_vars, st_vars, dt_vars,
                   mv_map, mv_fs0, mv_pc>>

\* every file of the job was handed to process_file
MoveEnd ==
    /\ mode = "move" /\ mv_pc = "job" /\ mv_left = {}
    /\ mv_pc' = "done"
    /\ UNCHANGED <<mode, rp_vars, fd_vars, fl_vars, pp_vars, tg_vars, st_vars, dt_vars,
                   mv_map, mv_fs0, mv_fs, mv_left, mv_moved>>

NextMove == MoveFile \/ MoveEnd

SpecMove == InitMove /\ [][NextMove]_vars

----------------------------------------------------------------------------
(* Claims about the moves of the id-path pass *)

\* C27: no two distinct files are moved to the same destination, every file
\* that was moved is still in the tree, and when the job is done the tree is
\* the tree it began with, every file at the path the replacer gives for the
\* path it had, whatever the order the files were processed in
C27_MovesApart ==
    mode = "move" =>
        /\ \A a \in mv_moved, b \in mv_moved : a[2] = b[2] => a[1] = b[1]
        /\ \A a \in mv_moved : \E x \in mv_fs : x.data = a[1]
        /\ mv_pc = "done" =>
              mv_fs = {[path |-> MoveTo(x.path, mv_map).d.v, data |-> x.data] :
                          x \in mv_fs0}

----------------------------------------------------------------------------
(* Claims about the totality of recursive_id_path_replacer *)

\* C30: a call of recursive_id_path_replacer with a mapping that has the
\* slash entry returns a result and does not raise, whatever the value
C30_Total ==
    (RpCalled("id") /\ HasKey(rp_map, TPS)) => ~rp_out.raised

====
